---- MODULE Spec2Model ----
(***************************************************************************)
(* MCP Chaos Rig: the configuration store (StateManager), the auth         *)
(* gateway (dynamicAuthMiddleware / oauthMiddleware), the in-memory OAuth  *)
(* token store, the consent decision, the code and refresh exchanges and   *)
(* the discovery documents of the delegated flow, the session registry     *)
(* (server.ts) with its tool registrations, the flaky and slow-mode        *)
(* settings, and the activity log.                                         *)
(*                                                                         *)
(* Strings that the code parses (Authorization headers, the shared secret, *)
(* access tokens) are sequences of one-character strings, so that          *)
(* split(" ") and toLowerCase() are computed, not assumed.                 *)
(***************************************************************************)
EXTENDS Integers, Sequences, FiniteSets, TLC

VARIABLES
    state,      \* stateManager.state (ServerState)
    log,        \* stateManager.log
    logSeq,     \* number of addLogEntry calls so far (stamps the entries)
    appended,   \* history: the entries appended since the last clear-log
    sessions,   \* server.ts: const sessions = new Map<string, SessionEntry>()
    inflight,   \* handleMcpRequest invocations suspended at an await
    nextSid,    \* number of session ids handed out by crypto.randomUUID()
    tokens,     \* (oauthProvider as any).tokens
    pendingAuthorizations,  \* oauth.ts: const pendingAuthorizations
    codes,      \* (oauthProvider as any).codes
    timers,     \* the expiry timers set by authorize: pending id -> due time
    uuids,      \* number of randomUUID() calls made for pending ids and codes
    authorized, \* history: the pending ids handed out
    decided,    \* history: the pending ids a decision has consumed
    issued,     \* history: code -> the decision that minted it
    exchanged,  \* history: the codes exchanged successfully
    refreshes,  \* history: the refresh values handed out
    now,        \* Date.now(), in milliseconds
    ticks,      \* number of clock steps taken
    requests,   \* the HTTP requests so far, in arrival order (history)
    contacts,   \* the contacts table: its rows and its AUTOINCREMENT value
    handlers,   \* the tool handlers suspended in slowModeDelay
    resp        \* the answer to the last operation

vars == <<state, log, logSeq, appended, sessions, inflight, nextSid,
          tokens, pendingAuthorizations, codes, timers, uuids, authorized,
          decided, issued, exchanged, refreshes, now, ticks, requests, contacts,
          handlers, resp>>

(***************************************************************************)
(* Bounds of the model.                                                    *)
(***************************************************************************)
MaxAppends == 203     \* addLogEntry calls explored (more than MAX_LOG_ENTRIES)
MaxSessions == 2      \* session ids handed out
MaxInflight == 1      \* session-creating requests suspended at the same time
MaxTokens == 1        \* access tokens minted
MaxTicks == 2         \* clock steps
MaxToolSessions == 2  \* sessions created while capabilities change
MaxFlakySessions == 1 \* sessions created while tools are invoked
MaxPending == 1       \* authorizations started
MaxRefreshes == 3     \* refresh values handed out
MaxExpiring == 2      \* authorizations started while timers run
RandomSteps == 4      \* values of Math.random() explored: k / RandomSteps

(***************************************************************************)
(* Program constants.                                                      *)
(***************************************************************************)
MAX_LOG_ENTRIES == 200
InitialTtlSecs == 15
MsPerSec == 1000

(***************************************************************************)
(* Strings as character sequences.                                         *)
(***************************************************************************)
EmptyStr == <<>>
SP == " "

\* String.prototype.toLowerCase on the letters the inputs use
LowerChar(c) ==
    CASE c = "B" -> "b"
      [] c = "E" -> "e"
      [] c = "A" -> "a"
      [] c = "R" -> "r"
      [] OTHER -> c

toLowerCase(s) == [i \in 1..Len(s) |-> LowerChar(s[i])]

\* String.prototype.split(" "): every segment between single spaces,
\* empty segments included
RECURSIVE split(_)
split(s) ==
    IF \A i \in 1..Len(s) : s[i] # SP
    THEN <<s>>
    ELSE LET i == CHOOSE k \in 1..Len(s) :
                      s[k] = SP /\ \A j \in 1..(k - 1) : s[j] # SP
         IN  <<SubSeq(s, 1, i - 1)>> \o split(SubSeq(s, i + 1, Len(s)))

\* const [type, token] = authHeader.split(" "); a missing element is
\* undefined, which like "" is falsy: both are EmptyStr here
Elem(parts, i) == IF i <= Len(parts) THEN parts[i] ELSE EmptyStr

STR_bearer == <<"b", "e", "a", "r", "e", "r">>
STR_Bearer == <<"B", "e", "a", "r", "e", "r">>
STR_BEARER == <<"B", "E", "A", "R", "E", "R">>
STR_Basic == <<"B", "a", "s", "i", "c">>
STR_testToken == <<"t", "e", "s", "t", "-", "t", "o", "k", "e", "n", "-",
                   "1", "2", "3">>
STR_a == <<"a">>
STR_a_b == <<"a", " ", "b">>
STR_x == <<"x">>

\* JSON values of a request body: a string, or something that is not one
JStr(s) == [t |-> "string", s |-> s]
JNum == [t |-> "number", s |-> EmptyStr]
JUndef == [t |-> "undefined", s |-> EmptyStr]
JBool(b) == [t |-> "boolean", b |-> b]
JInt(n) == [t |-> "number", n |-> n]

(***************************************************************************)
(* Tool catalogue (tools.ts).                                              *)
(***************************************************************************)
VersionedNames == {"echo", "add"}
StaticNames == {"get-time", "random-number", "reverse", "list-contacts",
                "search-contacts", "create-contact", "update-contact",
                "delete-contact"}

\* getAllToolNames(): the versioned tools, then the static ones
getAllToolNames == <<"echo", "add", "get-time", "random-number", "reverse",
                     "list-contacts", "search-contacts", "create-contact",
                     "update-contact", "delete-contact">>

\* Property names every plain object inherits: `name in obj` is true of them
ObjectProtoNames == {"constructor", "toString", "valueOf", "hasOwnProperty"}

\* JavaScript's `name in obj` for a plain object with own keys DOMAIN obj
InObj(name, obj) == name \in DOMAIN obj \/ name \in ObjectProtoNames

Undefined == "undefined"
NoDef == [name |-> "", version |-> ""]

\* state.toolVersions[name]: undefined unless an own key (an inherited
\* member is a function, which names no version of any tool)
VersionOf(st, name) ==
    IF name \in DOMAIN st.toolVersions THEN st.toolVersions[name]
    ELSE Undefined

\* truthiness of state.enabledTools[name]
EnabledOf(st, name) ==
    IF name \in DOMAIN st.enabledTools THEN st.enabledTools[name]
    ELSE name \in ObjectProtoNames

\* getToolDef(name, version): the definition registered for the tool, or
\* NoDef for undefined
getToolDef(name, version) ==
    IF name \in VersionedNames \/ name \in ObjectProtoNames
    THEN LET v == IF version = Undefined THEN "v1" ELSE version
         IN  IF name \in VersionedNames /\ v \in {"v1", "v2"}
             THEN [name |-> name, version |-> v]
             ELSE NoDef
    ELSE IF name \in StaticNames
         THEN [name |-> name, version |-> "static"]
         ELSE NoDef

\* mutant: the enabled tools are looked up without their configured version
getActiveTools_ignoreVersion(st) ==
    {getToolDef(getAllToolNames[i], Undefined) :
        i \in {j \in 1..Len(getAllToolNames) :
                  EnabledOf(st, getAllToolNames[j])}} \ {NoDef}

\* getActiveTools(state): the definitions of the enabled tools
getActiveTools(st) ==
    {getToolDef(getAllToolNames[i], VersionOf(st, getAllToolNames[i])) :
        i \in {j \in 1..Len(getAllToolNames) :
                  EnabledOf(st, getAllToolNames[j])}} \ {NoDef}

\* registerToolOnServer(server, def): the registration handle; its callback
\* rolls the flaky failure before calling def.handler
registerToolOnServer(def) == [version |-> def.version, flaky |-> TRUE]

\* existing.update({... callback: async (args) => def.handler(args)})
updateRegistration(def) == [version |-> def.version, flaky |-> FALSE]

(***************************************************************************)
(* StateManager: the initial configuration.  enabledTools holds the         *)
(* truthiness of each stored value, which is all the code reads, and       *)
(* enabledTypeof the typeof of the stored value.                           *)
(***************************************************************************)
InitialState ==
    [ authMode |-> "bearer",
      bearerToken |-> STR_testToken,
      rejectBearer |-> "none",
      rejectOAuth |-> "none",
      accessTokenTtlSecs |-> InitialTtlSecs,
      failOAuthRefresh |-> FALSE,
      slowMode |-> FALSE,
      slowMinMs |-> 500,
      slowMaxMs |-> 3000,
      flakyTools |-> FALSE,
      flakyPct |-> 20,
      enabledTools |->
          [n \in VersionedNames \cup StaticNames |->
              n \in {"echo", "add", "list-contacts", "search-contacts",
                     "create-contact", "update-contact", "delete-contact"}],
      enabledTypeof |-> [n \in VersionedNames \cup StaticNames |-> "boolean"],
      toolVersions |-> [n \in VersionedNames |-> "v1"] ]

AuthModes == {"none", "bearer", "oauth"}
RejectModes == {"none", "401", "500"}

(***************************************************************************)
(* OAuth token store and verification (oauth.ts).                         *)
(***************************************************************************)
\* DemoInMemoryAuthProvider.verifyAccessToken as the provider ships it:
\* the token must be stored and must not have expired
originalVerify(token) ==
    IF token \notin DOMAIN tokens \/ tokens[token].expiresAt < now
    THEN [ok |-> FALSE, err |-> "Error", expiresAt |-> 0]
    ELSE [ok |-> TRUE, err |-> "",
          expiresAt |-> tokens[token].expiresAt \div MsPerSec]

\* oauthProvider.verifyAccessToken: the reject toggle first, then the provider
verifyAccessToken(token) ==
    IF state.rejectOAuth = "401"
    THEN [ok |-> FALSE, err |-> "InvalidTokenError", expiresAt |-> 0]
    ELSE IF state.rejectOAuth = "500"
    THEN [ok |-> FALSE, err |-> "Error", expiresAt |-> 0]
    ELSE LET r == originalVerify(token)
         IN  IF r.ok THEN r
             ELSE [ok |-> FALSE, err |-> "InvalidTokenError", expiresAt |-> 0]

\* oauthMiddleware = requireBearerAuth({verifier: oauthProvider,
\* requiredScopes: []}): the SDK middleware reads the header, hands the token
\* to the verifier, and answers 401 to an InvalidTokenError and 500 to any
\* other error
oauthMiddleware(authHeader) ==
    IF authHeader = EmptyStr THEN "401"
    ELSE LET parts == split(authHeader)
             type == Elem(parts, 1)
             token == Elem(parts, 2)
         IN  IF toLowerCase(type) # STR_bearer \/ token = EmptyStr
             THEN "401"
             ELSE LET info == verifyAccessToken(token)
                  IN  IF ~info.ok
                      THEN (IF info.err = "InvalidTokenError" THEN "401"
                            ELSE "500")
                      ELSE IF info.expiresAt * MsPerSec < now THEN "401"
                      ELSE "next"

(***************************************************************************)
(* Auth gateway (auth.ts).                                                 *)
(***************************************************************************)
\* the header check of bearer mode: Authorization must read
\* "<scheme> <token>" with scheme "bearer" in any case and token the secret
checkBearerHeader(authHeader) ==
    IF authHeader = EmptyStr THEN "401"
    ELSE LET parts == split(authHeader)
             type == Elem(parts, 1)
             token == Elem(parts, 2)
         IN  IF toLowerCase(type) # STR_bearer \/ token = EmptyStr
             THEN "401"
             ELSE IF token # state.bearerToken THEN "401"
             ELSE "next"

\* mutant: the reject toggle is consulted only after the credentials failed
dynamicAuthMiddleware_checkFirst(authHeader) ==
    IF state.authMode = "none" THEN "next"
    ELSE IF state.authMode = "bearer"
    THEN IF checkBearerHeader(authHeader) = "next" THEN "next"
         ELSE IF state.rejectBearer = "500" THEN "500"
         ELSE "401"
    ELSE oauthMiddleware(authHeader)

\* mutant: the reject toggles are consulted before the mode
dynamicAuthMiddleware_rejectAnyMode(authHeader) ==
    IF state.rejectBearer # "none" THEN state.rejectBearer
    ELSE IF state.authMode = "none" THEN "next"
    ELSE IF state.authMode = "bearer" THEN checkBearerHeader(authHeader)
    ELSE oauthMiddleware(authHeader)

\* dynamicAuthMiddleware: "next" when the request passes, else the status
dynamicAuthMiddleware(authHeader) ==
    IF state.authMode = "none" THEN "next"
    ELSE IF state.authMode = "bearer"
    THEN IF state.rejectBearer = "401" THEN "401"
         ELSE IF state.rejectBearer = "500" THEN "500"
         ELSE checkBearerHeader(authHeader)
    ELSE IF state.authMode = "oauth"
    THEN oauthMiddleware(authHeader)
    ELSE "next"

(***************************************************************************)
(* Initial state: the process right after start-up.                        *)
(***************************************************************************)
\* the contacts table after the seed rows were inserted into an empty one:
\* each row by its id, with its name
SeedContacts ==
    [rows |-> (1 :> "Alice Johnson") @@ (2 :> "Bob Smith")
                 @@ (3 :> "Carol White"),
     seq |-> 3]

\* The answer to an operation: its status and the value it concerns, with
\* two facts about the state the operation started in (history): the number
\* of registered sessions and the auth mode.
NoResp ==
    [op |-> "none", status |-> "", arg |-> EmptyStr, sid |-> 0,
     before |-> 0, prevMode |-> ""]

Response(op, status, arg) ==
    [op |-> op, status |-> status, arg |-> arg, sid |-> 0,
     before |-> Cardinality(DOMAIN sessions), prevMode |-> state.authMode]

NoSessions == [s \in {} |-> 0]

Init ==
    /\ state = InitialState
    /\ log = <<>>
    /\ logSeq = 0
    /\ appended = <<>>
    /\ sessions = NoSessions
    /\ inflight = NoSessions
    /\ nextSid = 0
    /\ tokens = [t \in {} |-> 0]
    /\ pendingAuthorizations = [i \in {} |-> 0]
    /\ codes = [c \in {} |-> 0]
    /\ timers = [i \in {} |-> 0]
    /\ uuids = 0
    /\ authorized = {}
    /\ decided = {}
    /\ issued = [c \in {} |-> 0]
    /\ exchanged = {}
    /\ refreshes = [v \in {} |-> 0]
    /\ now = 0
    /\ ticks = 0
    /\ requests = <<>>
    /\ contacts = SeedContacts
    /\ handlers = <<>>
    /\ resp = NoResp

\* the activity log, and with it the stores only the request chain and the
\* tool handlers write
logVars == <<log, logSeq, appended, requests, contacts, handlers>>
sessionVars == <<sessions, inflight, nextSid>>
flowVars == <<pendingAuthorizations, codes, timers, uuids, authorized,
              decided, issued, exchanged>>
oauthVars == <<tokens, flowVars, refreshes>>
clockVars == <<now, ticks>>

\* a map without a key, and with a key set
Without(f, k) == [x \in DOMAIN f \ {k} |-> f[x]]
With(f, k, v) == [x \in DOMAIN f \cup {k} |-> IF x = k THEN v ELSE f[x]]

(***************************************************************************)
(* Session registry: force-close (server.ts).                              *)
(***************************************************************************)
\* disconnectAllSessions(): close and delete every entry of the map, one
\* key after the other
RECURSIVE disconnectAllSessions(_)
disconnectAllSessions(ss) ==
    IF DOMAIN ss = {} THEN ss
    ELSE LET sessionId == CHOOSE k \in DOMAIN ss : TRUE
         IN  disconnectAllSessions([k \in DOMAIN ss \ {sessionId} |-> ss[k]])

(***************************************************************************)
(* StateManager setters (state.ts).                                        *)
(***************************************************************************)
\* mutant: nothing is emitted when the mode does not change
setAuthMode_skipSameMode(mode) ==
    /\ IF mode = state.authMode
       THEN UNCHANGED <<state, sessions, inflight, nextSid>>
       ELSE /\ state' = [state EXCEPT !.authMode = mode]
            /\ sessions' = disconnectAllSessions(sessions)
            /\ inflight' = [r \in DOMAIN inflight |->
                               [inflight[r] EXCEPT !.entry.stale = TRUE]]
            /\ UNCHANGED nextSid
    /\ UNCHANGED oauthVars

\* mutant: the change of mode also empties the stores of the delegated flow
setAuthMode_clearsFlow(mode) ==
    /\ state' = [state EXCEPT !.authMode = mode]
    /\ sessions' = disconnectAllSessions(sessions)
    /\ inflight' = [r \in DOMAIN inflight |->
                       [inflight[r] EXCEPT !.entry.stale = TRUE]]
    /\ tokens' = [t \in {} |-> 0]
    /\ codes' = [c \in {} |-> 0]
    /\ pendingAuthorizations' = [i \in {} |-> 0]
    /\ UNCHANGED <<nextSid, timers, uuids, authorized, decided, issued,
                   exchanged, refreshes>>

\* setAuthMode(mode): write, then emit "auth-change", whose one listener is
\* disconnectAllSessions; nothing of the delegated flow listens.  Requests
\* suspended inside handleMcpRequest are not in the map; the history flag
\* `stale` records that they were admitted before this call.
setAuthMode(mode) ==
    /\ state' = [state EXCEPT !.authMode = mode]
    /\ sessions' = disconnectAllSessions(sessions)
    /\ inflight' = [r \in DOMAIN inflight |->
                       [inflight[r] EXCEPT !.entry.stale = TRUE]]
    /\ UNCHANGED nextSid
    /\ UNCHANGED oauthVars

\* setBearerToken(token)
setBearerToken(token) ==
    state' = [state EXCEPT !.bearerToken = token]

(***************************************************************************)
(* Control plane (api.ts).                                                 *)
(***************************************************************************)
\* POST /api/auth-mode {mode}
ApiAuthMode(mode) ==
    /\ IF mode \notin AuthModes
       THEN /\ resp' = Response("auth-mode", "400", EmptyStr)
            /\ UNCHANGED <<state, sessionVars, oauthVars>>
       ELSE /\ setAuthMode(mode)
            /\ resp' = Response("auth-mode", "200", EmptyStr)
    /\ UNCHANGED <<logVars, clockVars>>

\* POST /api/bearer-token {token}
ApiBearerToken(token) ==
    /\ IF token.t # "string" \/ token.s = EmptyStr
       THEN /\ resp' = Response("bearer-token", "400", EmptyStr)
            /\ UNCHANGED state
       ELSE /\ setBearerToken(token.s)
            /\ resp' = Response("bearer-token", "200", token.s)
    /\ UNCHANGED <<logVars, sessionVars, oauthVars, clockVars>>

\* POST /api/reject-auth {target, mode}
ApiRejectAuth(target, mode) ==
    /\ IF target \notin {"bearer", "oauth"} \/ mode \notin RejectModes
       THEN /\ resp' = Response("reject-auth", "400", EmptyStr)
            /\ UNCHANGED state
       ELSE /\ state' = IF target = "bearer"
                        THEN [state EXCEPT !.rejectBearer = mode]
                        ELSE [state EXCEPT !.rejectOAuth = mode]
            /\ resp' = Response("reject-auth", "200", EmptyStr)
    /\ UNCHANGED <<logVars, sessionVars, oauthVars, clockVars>>

\* mutant: the router has a handler for /oauth-settings
oauthSettingsRoute_handled(st, ttlSecs, failRefresh) ==
    [st EXCEPT !.accessTokenTtlSecs = ttlSecs,
               !.failOAuthRefresh = failRefresh]

\* what the API router does to the configuration for a POST to
\* /oauth-settings: it has no such route, the configuration stays
oauthSettingsRoute(st, ttlSecs, failRefresh) == st

\* POST /api/oauth-settings {accessTokenTtlSecs, failOAuthRefresh}, the
\* request the page sends from updateOAuthSettings(): no route of the
\* router matches and Express answers 404
ApiOAuthSettings(ttlSecs, failRefresh) ==
    /\ state' = oauthSettingsRoute(state, ttlSecs, failRefresh)
    /\ resp' = Response("oauth-settings", "404",
                        [ttlSecs |-> ttlSecs, failRefresh |-> failRefresh])
    /\ UNCHANGED <<logVars, sessionVars, oauthVars, clockVars>>

\* POST /api/reset-db: resetDatabase() empties the table, resets its
\* sequence and inserts the seed rows
ApiResetDb ==
    /\ contacts' = SeedContacts
    /\ resp' = Response("reset-db", "200", EmptyStr)
    /\ UNCHANGED <<state, log, logSeq, appended, requests, handlers,
                   sessionVars, oauthVars, clockVars>>

(***************************************************************************)
(* Protocol endpoint: the gateway's decision on one request.               *)
(***************************************************************************)
\* app.use("/mcp", dynamicAuthMiddleware(...)) applied to a request with
\* the given Authorization header ("" when the header is missing)
Gateway(authHeader) ==
    /\ resp' = Response("gateway", dynamicAuthMiddleware(authHeader), authHeader)
    /\ UNCHANGED <<state, logVars, sessionVars, oauthVars, clockVars>>

(***************************************************************************)
(* Delegated flow: refresh exchange, introspection, the clock (oauth.ts).  *)
(***************************************************************************)
\* the value of the i-th randomUUID() used as an access token
TokenStr(i) == <<ToString(i)>>

\* mutant: the endpoints are served in every mode
requireOAuthActive_always == TRUE

\* requireOAuthActive
requireOAuthActive == state.authMode = "oauth"

\* the refresh value the next randomUUID() yields, given those handed out
RefreshStr(rs) == "refresh-" \o ToString(Cardinality(DOMAIN rs) + 1)

\* a refresh value the server never handed out
NeverIssued == "never-issued"

\* history: what became of the refresh value a request presents
Presented(refreshToken) ==
    IF refreshToken \notin DOMAIN refreshes
    THEN [issued |-> FALSE, client |-> "", used |-> FALSE]
    ELSE [issued |-> TRUE, client |-> refreshes[refreshToken].client,
          used |-> refreshes[refreshToken].used]

RefreshArg(clientId, refreshToken, accessToken, expiresIn, newRefresh) ==
    [client |-> clientId, refreshToken |-> refreshToken,
     presented |-> Presented(refreshToken), access_token |-> accessToken,
     expires_in |-> expiresIn, refresh_token |-> newRefresh]

\* mutant: the toggle rejects only the values the server never handed out
refreshRejected_unknownOnly(st, refreshToken) ==
    st.failOAuthRefresh /\ refreshToken \notin DOMAIN refreshes

\* mutant: a value that was never handed out, or was used, is rejected too
refreshRejected_strict(st, refreshToken) ==
    \/ st.failOAuthRefresh
    \/ refreshToken \notin DOMAIN refreshes
    \/ refreshes[refreshToken].used

\* if (stateManager.state.failOAuthRefresh) throw new InvalidTokenError(...):
\* _refreshToken is not read
refreshRejected(st, refreshToken) == st.failOAuthRefresh

\* oauthProvider.exchangeRefreshToken, reached through POST /oauth/token
\* with grant_type=refresh_token and refresh_token=refreshToken, sent by the
\* registered client clientId; the token handler answers 400 to the
\* InvalidTokenError
ExchangeRefreshToken(clientId, refreshToken) ==
    /\ IF ~requireOAuthActive
       THEN /\ resp' = Response("refresh", "404",
                         RefreshArg(clientId, refreshToken, EmptyStr, 0, ""))
            /\ UNCHANGED <<tokens, refreshes>>
       ELSE IF refreshRejected(state, refreshToken)
       THEN /\ resp' = Response("refresh", "400",
                         RefreshArg(clientId, refreshToken, EmptyStr, 0, ""))
            /\ UNCHANGED <<tokens, refreshes>>
       ELSE LET ttlSecs == state.accessTokenTtlSecs
                accessToken == TokenStr(Cardinality(DOMAIN tokens) + 1)
                newRefresh == RefreshStr(refreshes)
                spent == IF refreshToken \in DOMAIN refreshes
                         THEN [refreshes EXCEPT ![refreshToken].used = TRUE]
                         ELSE refreshes
            IN  /\ tokens' = With(tokens, accessToken,
                                  [clientId |-> clientId,
                                   expiresAt |-> now + ttlSecs * MsPerSec])
                /\ refreshes' = With(spent, newRefresh,
                                     [client |-> clientId, used |-> FALSE])
                /\ resp' = Response("refresh", "200",
                              RefreshArg(clientId, refreshToken, accessToken,
                                         ttlSecs, newRefresh))
    /\ UNCHANGED <<state, logVars, sessionVars, flowVars, clockVars>>

\* the discovery documents: serveProtectedResourceMetadata,
\* serveProtectedResourceMetadataMcp and serveAuthServerMetadata, each
\* behind its own test of the mode
MetadataDocs == {"protected-resource", "protected-resource/mcp",
                 "authorization-server"}

\* GET /.well-known/... : one of the ten routes of a discovery document
Metadata(doc) ==
    /\ resp' = Response("metadata",
                  IF state.authMode # "oauth" THEN "404" ELSE "200",
                  <<doc>>)
    /\ UNCHANGED <<state, logVars, sessionVars, oauthVars, clockVars>>

\* POST /oauth/introspect {token}: requireOAuthActive, then handleIntrospect
Introspect(token) ==
    /\ resp' = Response("introspect",
                  IF ~requireOAuthActive THEN "404"
                  ELSE IF token = EmptyStr THEN "400"
                  ELSE IF verifyAccessToken(token).ok THEN "200"
                  ELSE "401",
                  token)
    /\ UNCHANGED <<state, logVars, sessionVars, oauthVars, clockVars>>

\* time passes
Tick(d) ==
    /\ ticks < MaxTicks
    /\ now' = now + d
    /\ ticks' = ticks + 1
    /\ resp' = NoResp
    /\ UNCHANGED <<state, logVars, sessionVars, oauthVars>>

(***************************************************************************)
(* Activity log (state.ts, index.ts, api.ts).                              *)
(***************************************************************************)
\* mutant: the trim keeps the oldest entries, slice(0, MAX_LOG_ENTRIES)
addLogEntry_keepOldest(lg, entry) ==
    LET pushed == Append(lg, entry)
    IN  IF Len(pushed) > MAX_LOG_ENTRIES
        THEN SubSeq(pushed, 1, MAX_LOG_ENTRIES)
        ELSE pushed

\* addLogEntry(entry): push, then keep the last MAX_LOG_ENTRIES
addLogEntry(lg, entry) ==
    LET pushed == Append(lg, entry)
    IN  IF Len(pushed) > MAX_LOG_ENTRIES
        THEN SubSeq(pushed, Len(pushed) - MAX_LOG_ENTRIES + 1, Len(pushed))
        ELSE pushed

\* res.on("finish") of a request outside /api and /ui: one entry, stamped
\* with the number of the call
RequestFinished(source, status) ==
    /\ logSeq < MaxAppends
    /\ LET entry == [seq |-> logSeq + 1, source |-> source, status |-> status]
       IN  /\ log' = addLogEntry(log, entry)
           /\ appended' = Append(appended, entry)
    /\ logSeq' = logSeq + 1
    /\ resp' = NoResp
    /\ UNCHANGED <<state, requests, contacts, handlers, sessionVars, oauthVars,
                   clockVars>>

\* POST /api/clear-log
ApiClearLog ==
    /\ log' = <<>>
    /\ appended' = <<>>
    /\ resp' = Response("clear-log", "200", EmptyStr)
    /\ UNCHANGED <<state, logSeq, requests, contacts, handlers, sessionVars,
                   oauthVars, clockVars>>

(***************************************************************************)
(* Session registry: capability changes (server.ts, state.ts, api.ts).     *)
(***************************************************************************)
\* createSession(): a server and a transport, with the tools enabled now.
\* History fields: the auth mode the request was admitted under, and whether
\* setAuthMode has been called since.
createSession ==
    [registeredTools |->
        [n \in {d.name : d \in getActiveTools(state)} |->
            registerToolOnServer(
                CHOOSE d \in getActiveTools(state) : d.name = n)],
     admittedMode |-> state.authMode,
     stale |-> FALSE]

\* mutant: a tool enabled again is registered at its first version, not at
\* the configured one
onToolChange_firstVersion(entry, st, change) ==
    LET registeredTools == entry.registeredTools
        existing == change.toolName \in DOMAIN registeredTools
    IN  IF change.type = "toggle"
        THEN IF change.enabled /\ ~existing
             THEN LET version == Undefined
                      def == getToolDef(change.toolName, version)
                  IN  IF def # NoDef
                      THEN [entry EXCEPT !.registeredTools =
                              With(registeredTools, change.toolName,
                                   registerToolOnServer(def))]
                      ELSE entry
             ELSE IF ~change.enabled /\ existing
             THEN [entry EXCEPT !.registeredTools =
                      Without(registeredTools, change.toolName)]
             ELSE entry
        ELSE IF change.type = "version"
        THEN LET def == getToolDef(change.toolName, change.version)
             IN  IF def # NoDef /\ existing
                 THEN [entry EXCEPT !.registeredTools =
                         With(registeredTools, change.toolName,
                              updateRegistration(def))]
                 ELSE IF def # NoDef /\ ~existing
                         /\ EnabledOf(st, change.toolName)
                 THEN [entry EXCEPT !.registeredTools =
                         With(registeredTools, change.toolName,
                              registerToolOnServer(def))]
                 ELSE entry
        ELSE entry

\* mutant: a version change registers the tool in a session that lacks it
\* without asking whether the tool is enabled
onToolChange_ignoreEnabled(entry, st, change) ==
    LET registeredTools == entry.registeredTools
        existing == change.toolName \in DOMAIN registeredTools
    IN  IF change.type = "toggle"
        THEN IF change.enabled /\ ~existing
             THEN LET version == VersionOf(st, change.toolName)
                      def == getToolDef(change.toolName, version)
                  IN  IF def # NoDef
                      THEN [entry EXCEPT !.registeredTools =
                              With(registeredTools, change.toolName,
                                   registerToolOnServer(def))]
                      ELSE entry
             ELSE IF ~change.enabled /\ existing
             THEN [entry EXCEPT !.registeredTools =
                      Without(registeredTools, change.toolName)]
             ELSE entry
        ELSE IF change.type = "version"
        THEN LET def == getToolDef(change.toolName, change.version)
             IN  IF def # NoDef /\ existing
                 THEN [entry EXCEPT !.registeredTools =
                         With(registeredTools, change.toolName,
                              updateRegistration(def))]
                 ELSE IF def # NoDef /\ ~existing
                 THEN [entry EXCEPT !.registeredTools =
                         With(registeredTools, change.toolName,
                              registerToolOnServer(def))]
                 ELSE entry
        ELSE entry

\* the "tool-change" listener applied to one entry of the map; st is the
\* configuration after the setter's write
onToolChange(entry, st, change) ==
    LET registeredTools == entry.registeredTools
        existing == change.toolName \in DOMAIN registeredTools
    IN  IF change.type = "toggle"
        THEN IF change.enabled /\ ~existing
             THEN LET version == VersionOf(st, change.toolName)
                      def == getToolDef(change.toolName, version)
                  IN  IF def # NoDef
                      THEN [entry EXCEPT !.registeredTools =
                              With(registeredTools, change.toolName,
                                   registerToolOnServer(def))]
                      ELSE entry
             ELSE IF ~change.enabled /\ existing
             THEN [entry EXCEPT !.registeredTools =
                      Without(registeredTools, change.toolName)]
             ELSE entry
        ELSE IF change.type = "version"
        THEN LET def == getToolDef(change.toolName, change.version)
             IN  IF def # NoDef /\ existing
                 THEN [entry EXCEPT !.registeredTools =
                         With(registeredTools, change.toolName,
                              updateRegistration(def))]
                 ELSE IF def # NoDef /\ ~existing
                         /\ EnabledOf(st, change.toolName)
                 THEN [entry EXCEPT !.registeredTools =
                         With(registeredTools, change.toolName,
                              registerToolOnServer(def))]
                 ELSE entry
        ELSE entry

\* emit("tool-change", change): the listener visits every entry of the map
emitToolChange(st, change) ==
    sessions' = [sid \in DOMAIN sessions |->
                    onToolChange(sessions[sid], st, change)]

\* the truthiness of a JSON value of a request body
truthy(v) ==
    IF v.t = "boolean" THEN v.b
    ELSE IF v.t = "string" THEN v.s # EmptyStr
    ELSE IF v.t = "number" THEN v.n # 0
    ELSE FALSE

\* setToolEnabled(toolName, enabled): FALSE for a name that is not `in`
\* enabledTools; else write the value as it came, emit, TRUE
setToolEnabled(toolName, enabled) ==
    LET st == [state EXCEPT
                  !.enabledTools =
                      With(state.enabledTools, toolName, truthy(enabled)),
                  !.enabledTypeof =
                      With(state.enabledTypeof, toolName, enabled.t)]
    IN  /\ state' = st
        /\ emitToolChange(st, [toolName |-> toolName, type |-> "toggle",
                               enabled |-> truthy(enabled),
                               version |-> Undefined])

\* setToolVersion(toolName, version): FALSE for a name that is not `in`
\* toolVersions; else write, emit, TRUE
setToolVersion(toolName, version) ==
    LET st == [state EXCEPT !.toolVersions =
                  With(state.toolVersions, toolName, version)]
    IN  /\ state' = st
        /\ emitToolChange(st, [toolName |-> toolName, type |-> "version",
                               enabled |-> FALSE, version |-> version])

\* POST /api/tool-toggle {toolName, enabled}, with `enabled` any JSON value
\* or missing: the route hands it to setToolEnabled as it is
ApiToolToggleBody(toolName, enabled) ==
    /\ IF ~InObj(toolName, state.enabledTools)
       THEN /\ resp' = Response("tool-toggle", "400", <<toolName>>)
            /\ UNCHANGED <<state, sessions>>
       ELSE /\ setToolEnabled(toolName, enabled)
            /\ resp' = Response(IF truthy(enabled) THEN "tool-on"
                                ELSE "tool-off",
                                "200", <<toolName>>)
    /\ UNCHANGED <<inflight, nextSid, logVars, oauthVars, clockVars>>

\* POST /api/tool-toggle {toolName, enabled} with a boolean `enabled`
ApiToolToggle(toolName, enabled) == ApiToolToggleBody(toolName, JBool(enabled))

\* POST /api/tool-version {toolName, version}
ApiToolVersion(toolName, version) ==
    /\ IF version \notin {"v1", "v2"}
       THEN /\ resp' = Response("tool-version", "400", <<toolName>>)
            /\ UNCHANGED <<state, sessions>>
       ELSE IF ~InObj(toolName, state.toolVersions)
       THEN /\ resp' = Response("tool-version", "400", <<toolName>>)
            /\ UNCHANGED <<state, sessions>>
       ELSE /\ setToolVersion(toolName, version)
            /\ resp' = Response("tool-version", "200", <<toolName>>)
    /\ UNCHANGED <<inflight, nextSid, logVars, oauthVars, clockVars>>

(***************************************************************************)
(* Protocol endpoint: handleMcpRequest (index.ts, server.ts).              *)
(***************************************************************************)
NoSid == 0

WithSid(r, sid) == [r EXCEPT !.sid = sid]

\* mutant: a DELETE closes every session
terminateSession_all(ss, sessionId) == NoSessions

\* the transport closes on DELETE, and onclose and line 63 delete the id
terminateSession(ss, sessionId) == Without(ss, sessionId)

\* A request to /mcp that the gateway lets through enters handleMcpRequest
\* in the same turn.  GET and DELETE need a registered session; a POST for
\* a registered session is handed to its transport; any other POST creates
\* an entry and suspends at `await entry.server.connect(...)`, whether or
\* not it carried a session id (history field `continuation`).
McpRequest(method, sessionId, isInitialize, authHeader) ==
    LET gate == dynamicAuthMiddleware(authHeader)
        known == sessionId # NoSid /\ sessionId \in DOMAIN sessions
    IN  /\ IF gate # "next"
           THEN /\ resp' = WithSid(Response("mcp", gate, authHeader), sessionId)
                /\ UNCHANGED sessionVars
           ELSE IF method \in {"GET", "DELETE"}
           THEN IF ~known
                THEN /\ resp' = WithSid(Response(method, "400", authHeader),
                                        sessionId)
                     /\ UNCHANGED sessionVars
                ELSE /\ resp' = WithSid(Response(method, "200", authHeader),
                                        sessionId)
                     /\ sessions' = IF method = "DELETE"
                                    THEN terminateSession(sessions, sessionId)
                                    ELSE sessions
                     /\ UNCHANGED <<inflight, nextSid>>
           ELSE IF known
           THEN /\ resp' = WithSid(Response("POST", "200", authHeader),
                                   sessionId)
                /\ UNCHANGED sessionVars
           ELSE /\ nextSid + Cardinality(DOMAIN inflight) < MaxSessions
                /\ Cardinality(DOMAIN inflight) < MaxInflight
                /\ LET r == CHOOSE k \in 1..MaxInflight :
                               k \notin DOMAIN inflight
                   IN  inflight' = With(inflight, r,
                           [pc |-> "connect", entry |-> createSession,
                            isInitialize |-> isInitialize, sid |-> NoSid,
                            continuation |-> sessionId # NoSid])
                /\ resp' = WithSid(Response("POST", "pending", authHeader),
                                   sessionId)
                /\ UNCHANGED <<sessions, nextSid>>
        /\ UNCHANGED <<state, logVars, oauthVars, clockVars>>

\* connect() has resolved: transport.handleRequest runs; an initialize
\* request makes the transport generate its session id; then the handler
\* suspends at `await entry.transport.handleRequest(...)`
ResumeConnect(r) ==
    /\ r \in DOMAIN inflight
    /\ inflight[r].pc = "connect"
    /\ IF inflight[r].isInitialize
       THEN /\ nextSid' = nextSid + 1
            /\ inflight' = [inflight EXCEPT ![r].pc = "handleRequest",
                                            ![r].sid = nextSid + 1]
       ELSE /\ nextSid' = nextSid
            /\ inflight' = [inflight EXCEPT ![r].pc = "handleRequest"]
    /\ resp' = NoResp
    /\ UNCHANGED <<state, sessions, logVars, oauthVars, clockVars>>

\* handleRequest() has resolved: with a session id the entry is put in the map
ResumeHandleRequest(r) ==
    /\ r \in DOMAIN inflight
    /\ inflight[r].pc = "handleRequest"
    /\ IF inflight[r].sid # NoSid
       THEN /\ sessions' = With(sessions, inflight[r].sid, inflight[r].entry)
            /\ resp' = WithSid(Response("POST", "200", EmptyStr),
                               inflight[r].sid)
       ELSE /\ sessions' = sessions
            /\ resp' = Response("POST", "400", EmptyStr)
    /\ inflight' = Without(inflight, r)
    /\ UNCHANGED <<state, nextSid, logVars, oauthVars, clockVars>>

(***************************************************************************)
(* Fault injection: flaky tools (api.ts, server.ts).                       *)
(***************************************************************************)
Min(a, b) == IF a < b THEN a ELSE b

\* mutant: the lower bound is not applied
Max_noClamp(a, b) == b

\* Math.max(a, b)
Max(a, b) == IF a > b THEN a ELSE b

\* POST /api/flaky-tools {enabled, pct}: each field is written when it has
\* the right type, pct clamped to 0..100
ApiFlakyTools(enabled, pct) ==
    /\ state' = [state EXCEPT
                    !.flakyTools = IF enabled.t = "boolean" THEN enabled.b
                                   ELSE @,
                    !.flakyPct = IF pct.t = "number"
                                 THEN Max(0, Min(100, pct.n))
                                 ELSE @]
    /\ resp' = Response("flaky-tools", "200", EmptyStr)
    /\ UNCHANGED <<logVars, sessionVars, oauthVars, clockVars>>

\* mutant: the roll fails when it is equal to the percentage too
rollFailure_inclusive(st, roll) ==
    st.flakyTools /\ roll <= st.flakyPct

\* stateManager.state.flakyTools && Math.random() * 100 < flakyPct, with
\* roll the value of Math.random() * 100, which lies in [0, 100)
rollFailure(st, roll) ==
    st.flakyTools /\ roll < st.flakyPct

\* mutant: the handler runs before the roll is looked at
invokeCallback_handlerFirst(registration, st, roll) ==
    IF registration.flaky /\ rollFailure(st, roll)
    THEN "handler-then-failure"
    ELSE "handler"

\* the callback of a registration, invoked: one made by
\* registerToolOnServer rolls before it calls def.handler, one replaced by
\* existing.update() calls def.handler directly
invokeCallback(registration, st, roll) ==
    IF registration.flaky /\ rollFailure(st, roll)
    THEN "flaky-failure"
    ELSE "handler"

\* A tools/call request: a POST to /mcp for a registered session, which the
\* gateway lets through and handleMcpRequest hands to the session's
\* transport; the server calls the callback registered under the name
CallTool(sessionId, name, roll, authHeader) ==
    /\ sessionId \in DOMAIN sessions
    /\ dynamicAuthMiddleware(authHeader) = "next"
    /\ LET registeredTools == sessions[sessionId].registeredTools
       IN  resp' = WithSid(
               Response("call",
                        IF name \notin DOMAIN registeredTools
                        THEN "unknown-tool"
                        ELSE invokeCallback(registeredTools[name], state, roll),
                        [name |-> name, roll |-> roll]),
               sessionId)
    /\ UNCHANGED <<state, logVars, sessionVars, oauthVars, clockVars>>

(***************************************************************************)
(* Fault injection: slow mode (api.ts, index.ts).                          *)
(***************************************************************************)
\* POST /api/slow-mode {enabled, minMs, maxMs}: each field is written when
\* it has the right type, the two durations raised to 0
ApiSlowMode(enabled, minMs, maxMs) ==
    /\ state' = [state EXCEPT
                    !.slowMode = IF enabled.t = "boolean" THEN enabled.b
                                 ELSE @,
                    !.slowMinMs = IF minMs.t = "number"
                                  THEN Max(0, minMs.n)
                                  ELSE @,
                    !.slowMaxMs = IF maxMs.t = "number"
                                  THEN Max(0, maxMs.n)
                                  ELSE @]
    /\ resp' = Response("slow-mode", "200", [minMs |-> minMs, maxMs |-> maxMs])
    /\ UNCHANGED <<logVars, sessionVars, oauthVars, clockVars>>

\* Math.floor(Math.random() * (slowMaxMs - slowMinMs + 1)) + slowMinMs,
\* with Math.random() = random / RandomSteps, a value of [0, 1)
slowDelayMs(st, random) ==
    ((random * (st.slowMaxMs - st.slowMinMs + 1)) \div RandomSteps)
        + st.slowMinMs

\* slowModeDelay(), awaited before a request to /mcp, /oauth or
\* /.well-known goes on: no timer unless slowMode is set
SlowModeDelay(random) ==
    /\ resp' = IF ~state.slowMode
               THEN Response("delay", "none", [ms |-> 0])
               ELSE Response("delay", "suspended",
                             [ms |-> slowDelayMs(state, random)])
    /\ UNCHANGED <<state, logVars, sessionVars, oauthVars, clockVars>>

(***************************************************************************)
(* Contact tools (db.ts, tools.ts) and their invocation (server.ts).       *)
(***************************************************************************)
\* what the handler of a tool does to the contacts table once its
\* slowModeDelay is over: createContact, updateContactField (the name),
\* deleteContact; the other handlers only read
handlerEffect(c, name, id, value) ==
    IF name = "create-contact"
    THEN [rows |-> With(c.rows, c.seq + 1, value), seq |-> c.seq + 1]
    ELSE IF name = "update-contact" /\ id \in DOMAIN c.rows
    THEN [c EXCEPT !.rows[id] = value]
    ELSE IF name = "delete-contact"
    THEN [c EXCEPT !.rows = Without(c.rows, id)]
    ELSE c

\* The reply to a tools/call leaves through the wrapped transport.send,
\* which writes an outbound entry, and the POST's response then finishes,
\* which writes the inbound one.
logReply(rpc) ==
    LET out == [seq |-> logSeq + 1, source |-> "sse", status |-> rpc,
                arrival |-> 0]
        in == [seq |-> logSeq + 2, source |-> "mcp", status |-> "200",
               arrival |-> 0]
    IN  /\ log' = addLogEntry(addLogEntry(log, out), in)
        /\ appended' = appended \o <<out, in>>
        /\ logSeq' = logSeq + 2

CallArg(name, roll, id, value, isError, rpc) ==
    [name |-> name, roll |-> roll, id |-> id, value |-> value,
     isError |-> isError, rpc |-> rpc]

\* A tools/call request for a registered session, with the handler's work:
\* the callback made by registerToolOnServer returns the failure result
\* when the roll fails and calls def.handler otherwise; every handler first
\* awaits slowModeDelay() and then works on the table.
CallToolHandler(sessionId, name, roll, id, value, authHeader) ==
    /\ sessionId \in DOMAIN sessions
    /\ dynamicAuthMiddleware(authHeader) = "next"
    /\ LET registeredTools == sessions[sessionId].registeredTools
           outcome == IF name \notin DOMAIN registeredTools
                      THEN "unknown-tool"
                      ELSE invokeCallback(registeredTools[name], state, roll)
       IN  IF outcome = "unknown-tool"
           THEN /\ resp' = WithSid(Response("tools/call", outcome,
                               CallArg(name, roll, id, value, FALSE, "error")),
                               sessionId)
                /\ logReply("error")
                /\ UNCHANGED <<contacts, handlers>>
           ELSE IF outcome = "flaky-failure"
           THEN /\ resp' = WithSid(Response("tools/call", outcome,
                               CallArg(name, roll, id, value, TRUE, "result")),
                               sessionId)
                /\ logReply("result")
                /\ UNCHANGED <<contacts, handlers>>
           ELSE IF state.slowMode
           THEN /\ handlers' = Append(handlers,
                                      [name |-> name, id |-> id,
                                       value |-> value, outcome |-> outcome])
                /\ resp' = WithSid(Response("tools/call", "suspended",
                               CallArg(name, roll, id, value, FALSE, "")),
                               sessionId)
                /\ UNCHANGED <<contacts, log, logSeq, appended>>
           ELSE /\ contacts' = handlerEffect(contacts, name, id, value)
                /\ resp' = WithSid(Response("tools/call", outcome,
                               CallArg(name, roll, id, value,
                                       outcome # "handler", "result")),
                               sessionId)
                /\ logReply("result")
                /\ UNCHANGED handlers
    /\ UNCHANGED <<state, requests, sessionVars, oauthVars, clockVars>>

\* the timer of a handler's slowModeDelay fires: the handler does its work
HandlerResumes(h) ==
    /\ h \in 1..Len(handlers)
    /\ LET call == handlers[h]
       IN  /\ contacts' = handlerEffect(contacts, call.name, call.id,
                                        call.value)
           /\ resp' = Response("tools/call", call.outcome,
                         CallArg(call.name, 0, call.id, call.value,
                                 call.outcome # "handler", "result"))
    /\ logReply("result")
    /\ handlers' = [i \in 1..(Len(handlers) - 1) |->
                       IF i < h THEN handlers[i] ELSE handlers[i + 1]]
    /\ UNCHANGED <<state, requests, sessionVars, oauthVars, clockVars>>

(***************************************************************************)
(* The middleware chain of the application (index.ts): body parser, page   *)
(* and control-plane routes, activity-log middleware, slow-mode delay,     *)
(* auth gateway, protocol endpoint.                                        *)
(***************************************************************************)
PATH_ui == <<"/", "u", "i">>
PATH_favicon == <<"/", "f", "a", "v", "i", "c", "o", "n", ".", "s", "v", "g">>
PATH_api == <<"/", "a", "p", "i">>
PATH_apiState == PATH_api \o <<"/", "s", "t", "a", "t", "e">>
PATH_mcp == <<"/", "m", "c", "p">>
PATH_oauth == <<"/", "o", "a", "u", "t", "h">>
PATH_wellKnown == <<"/", ".", "w", "e", "l", "l", "-", "k", "n", "o", "w", "n">>
PATH_nowhere == <<"/", "n", "o", "w", "h", "e", "r", "e">>

\* String.prototype.startsWith
startsWith(s, prefix) ==
    /\ Len(s) >= Len(prefix)
    /\ SubSeq(s, 1, Len(prefix)) = prefix

\* String.prototype.includes
includes(s, part) ==
    \E i \in 1..(Len(s) - Len(part) + 1) :
        SubSeq(s, i, i + Len(part) - 1) = part

\* app.use(mount, ...): the path is the mount point or lies below it
mountedAt(mount, path) ==
    \/ path = mount
    \/ startsWith(path, mount \o <<"/">>)

\* the routes that answer before the activity-log middleware is reached:
\* app.get("/ui"), app.get("/favicon.svg"), app.use("/api", ...) for the
\* state route
answeredEarly(path) ==
    path \in {PATH_ui, PATH_favicon, PATH_apiState}

\* the test of the activity-log middleware
logged(path) == ~startsWith(path, PATH_api) /\ path # PATH_ui

\* the three mounts of slowModeDelay
delayed(path) ==
    \/ mountedAt(PATH_mcp, path)
    \/ mountedAt(PATH_oauth, path)
    \/ mountedAt(PATH_wellKnown, path)

\* the `source` of an entry
sourceOf(path) ==
    IF \/ startsWith(path, PATH_oauth)
       \/ includes(path, SubSeq(PATH_wellKnown, 3, Len(PATH_wellKnown)))
    THEN "auth"
    ELSE "mcp"

\* The status a GET request without a session id ends with once the delay
\* is over: on /mcp the gateway's answer, or 400 from handleMcpRequest when
\* the gateway lets it through; 404 where no route matches.
finalStatus(path, authHeader) ==
    IF path = PATH_mcp
    THEN LET gate == dynamicAuthMiddleware(authHeader)
         IN  IF gate # "next" THEN gate ELSE "400"
    ELSE "404"

\* mutant: the gateway's answer is the one the request had on arrival
judgedStatus_atArrival(req) == req.atArrival

\* the gateway reads the configuration when the request reaches it
judgedStatus(req) == finalStatus(req.path, req.authHeader)

\* res.on("finish") of the activity-log middleware for request number n
finishLogged(n, path, status) ==
    LET entry == [seq |-> logSeq + 1, source |-> sourceOf(path),
                  status |-> status, arrival |-> n]
    IN  /\ log' = addLogEntry(log, entry)
        /\ appended' = Append(appended, entry)
        /\ logSeq' = logSeq + 1

\* A GET request arrives.  express.json() answers a body it cannot parse
\* with 400 through the error path, which skips every middleware after it;
\* the page, icon and control-plane routes answer next; every other request
\* gets the finish listener, and then either waits in slowModeDelay or runs
\* to its answer in the same turn.  History field atArrival: the status the
\* request would end with under the configuration it arrived in.
HttpArrive(path, bodyParses, authHeader) ==
    LET n == Len(requests) + 1
        req == [path |-> path, authHeader |-> authHeader, pc |-> "done",
                status |-> "", atArrival |-> finalStatus(path, authHeader)]
    IN  /\ IF ~bodyParses
           THEN /\ requests' = Append(requests, [req EXCEPT !.status = "400"])
                /\ resp' = WithSid(Response("http", "400", path), n)
                /\ UNCHANGED <<log, logSeq, appended>>
           ELSE IF answeredEarly(path)
           THEN /\ requests' = Append(requests, [req EXCEPT !.status = "200"])
                /\ resp' = WithSid(Response("http", "200", path), n)
                /\ UNCHANGED <<log, logSeq, appended>>
           ELSE IF delayed(path) /\ state.slowMode
           THEN /\ requests' = Append(requests, [req EXCEPT !.pc = "delay"])
                /\ resp' = WithSid(Response("http", "suspended", path), n)
                /\ UNCHANGED <<log, logSeq, appended>>
           ELSE LET status == judgedStatus(req)
                IN  /\ requests' = Append(requests,
                                          [req EXCEPT !.status = status])
                    /\ resp' = WithSid(Response("http", status, path), n)
                    /\ IF logged(path)
                       THEN finishLogged(n, path, status)
                       ELSE UNCHANGED <<log, logSeq, appended>>
        /\ UNCHANGED <<state, contacts, handlers, sessionVars, oauthVars,
                       clockVars>>

\* The timer of slowModeDelay fires for request number n: the chain goes
\* on with the gateway and the response finishes.
HttpDelayEnds(n) ==
    /\ n \in 1..Len(requests)
    /\ requests[n].pc = "delay"
    /\ LET status == judgedStatus(requests[n])
       IN  /\ requests' = [requests EXCEPT ![n].pc = "done",
                                           ![n].status = status]
           /\ resp' = WithSid(Response("http", status, requests[n].path), n)
           /\ IF logged(requests[n].path)
              THEN finishLogged(n, requests[n].path, status)
              ELSE UNCHANGED <<log, logSeq, appended>>
    /\ UNCHANGED <<state, contacts, handlers, sessionVars, oauthVars,
                   clockVars>>

(***************************************************************************)
(* Delegated flow: consent and code exchange (oauth.ts).                   *)
(***************************************************************************)
PENDING_TTL_MS == 300000    \* 5 * 60 * 1000
PROVIDER_TTL_SECS == 3600   \* the lifetime the provider gives a token
BogusCode == "invalid-bogus-code-000"
TamperedState == "tampered-wrong-state-value"

\* a query parameter that is not there; `if (params.state)` takes an empty
\* state for a missing one, and both are NoParam here
NoParam == ""

\* the value of the n-th randomUUID() used as a pending id or a code
Uuid(n) == "uuid-" \o ToString(n)

NoPending == [client |-> "", params |-> [state |-> NoParam]]
NoRedirect == [code |-> NoParam, state |-> NoParam, error |-> NoParam]

\* oauthProvider.authorize, reached through GET /oauth/authorize behind
\* requireOAuthActive: a pending authorization under a fresh id, and a
\* timer that deletes it after five minutes
Authorize(client, authState) ==
    /\ IF ~requireOAuthActive
       THEN /\ resp' = Response("authorize", "404", EmptyStr)
            /\ UNCHANGED flowVars
       ELSE /\ LET pendingId == Uuid(uuids + 1)
               IN  /\ pendingAuthorizations' =
                         With(pendingAuthorizations, pendingId,
                              [client |-> client,
                               params |-> [state |-> authState]])
                   /\ timers' = With(timers, pendingId, now + PENDING_TTL_MS)
                   /\ authorized' = authorized \cup {pendingId}
                   /\ resp' = Response("authorize", "200", <<pendingId>>)
            /\ uuids' = uuids + 1
            /\ UNCHANGED <<codes, decided, issued, exchanged>>
    /\ UNCHANGED <<state, logVars, sessionVars, tokens, refreshes, clockVars>>

\* mutant: the timer callback deletes nothing
expirePending_keep(pa, id) == pa

\* the timer callback: pendingAuthorizations.delete(pendingId), which does
\* nothing when the id is not in the map
expirePending(pa, id) == Without(pa, id)

\* setTimeout(() => pendingAuthorizations.delete(pendingId), 5 * 60 * 1000):
\* the timer is never cleared, so it fires whether or not a decision came
PendingTimeout(id) ==
    /\ id \in DOMAIN timers
    /\ now >= timers[id]
    /\ pendingAuthorizations' = expirePending(pendingAuthorizations, id)
    /\ timers' = Without(timers, id)
    /\ resp' = NoResp
    /\ UNCHANGED <<state, logVars, sessionVars, tokens, codes, uuids,
                   authorized, decided, issued, exchanged, refreshes,
                   clockVars>>

\* mutant: the pending authorization is left in the map
consumePending_keep(pa, id) == pa

\* pendingAuthorizations.delete(id)
consumePending(pa, id) == Without(pa, id)

\* mutant: the wrong-code decision stores its code like approve does
decisionOutcome_bogusStored(pending, action, code) ==
    LET carried == IF pending.params.state # NoParam
                   THEN pending.params.state ELSE NoParam
    IN  IF action = "approve"
        THEN [status |-> "302", body |-> "", store |-> {code},
              redirect |-> [code |-> code, state |-> carried,
                            error |-> NoParam]]
        ELSE IF action = "decline"
        THEN [status |-> "302", body |-> "", store |-> {},
              redirect |-> [code |-> NoParam, state |-> carried,
                            error |-> "access_denied"]]
        ELSE IF action = "wrong-code"
        THEN [status |-> "302", body |-> "", store |-> {BogusCode},
              redirect |-> [code |-> BogusCode, state |-> carried,
                            error |-> NoParam]]
        ELSE IF action = "wrong-state"
        THEN [status |-> "302", body |-> "", store |-> {code},
              redirect |-> [code |-> code, state |-> TamperedState,
                            error |-> NoParam]]
        ELSE [status |-> "400", body |-> "Unknown action", store |-> {},
              redirect |-> NoRedirect]

\* handleAuthorizeDecision once the pending authorization is found: the
\* status, the codes put in the code store, and the parameters set on the
\* redirect; code is the value randomUUID() returns if it is called
decisionOutcome(pending, action, code) ==
    LET carried == IF pending.params.state # NoParam
                   THEN pending.params.state ELSE NoParam
    IN  IF action = "approve"
        THEN [status |-> "302", body |-> "", store |-> {code},
              redirect |-> [code |-> code, state |-> carried,
                            error |-> NoParam]]
        ELSE IF action = "decline"
        THEN [status |-> "302", body |-> "", store |-> {},
              redirect |-> [code |-> NoParam, state |-> carried,
                            error |-> "access_denied"]]
        ELSE IF action = "wrong-code"
        THEN [status |-> "302", body |-> "", store |-> {},
              redirect |-> [code |-> BogusCode, state |-> carried,
                            error |-> NoParam]]
        ELSE IF action = "wrong-state"
        THEN [status |-> "302", body |-> "", store |-> {code},
              redirect |-> [code |-> code, state |-> TamperedState,
                            error |-> NoParam]]
        ELSE [status |-> "400", body |-> "Unknown action", store |-> {},
              redirect |-> NoRedirect]

\* the answer to a decision: what was submitted, what came back, and
\* (history) the pending authorization it consumed
DecisionArg(id, action, body, redirect, original) ==
    [id |-> id, action |-> action, body |-> body, code |-> redirect.code,
     state |-> redirect.state, error |-> redirect.error,
     original |-> original]

\* POST /oauth/authorize-decision {id, action}: requireOAuthActive, then
\* handleAuthorizeDecision
AuthorizeDecision(id, action) ==
    /\ IF ~requireOAuthActive
       THEN /\ resp' = Response("decision", "404",
                          DecisionArg(id, action, "OAuth not active",
                                      NoRedirect, NoPending))
            /\ UNCHANGED flowVars
       ELSE IF id \notin DOMAIN pendingAuthorizations
       THEN /\ resp' = Response("decision", "400",
                          DecisionArg(id, action, "expired or already used",
                                      NoRedirect, NoPending))
            /\ UNCHANGED flowVars
       ELSE LET pending == pendingAuthorizations[id]
                code == Uuid(uuids + 1)
                out == decisionOutcome(pending, action, code)
            IN  /\ pendingAuthorizations' =
                      consumePending(pendingAuthorizations, id)
                /\ decided' = decided \cup {id}
                /\ codes' = [c \in DOMAIN codes \cup out.store |->
                                IF c \in out.store THEN pending ELSE codes[c]]
                /\ issued' = [c \in DOMAIN issued \cup out.store |->
                                 IF c \in out.store
                                 THEN [action |-> action, id |-> id,
                                       client |-> pending.client,
                                       params |-> pending.params]
                                 ELSE issued[c]]
                /\ uuids' = IF code \in out.store THEN uuids + 1 ELSE uuids
                /\ resp' = Response("decision", out.status,
                              DecisionArg(id, action, out.body, out.redirect,
                                          pending))
                /\ UNCHANGED <<timers, authorized, exchanged>>
    /\ UNCHANGED <<state, logVars, sessionVars, tokens, refreshes, clockVars>>

\* mutant: an exchanged code stays in the code store
consumeCode_keep(cs, code) == cs

\* the provider's exchangeAuthorizationCode: this.codes.delete(code)
consumeCode(cs, code) == Without(cs, code)

\* the provider's exchangeAuthorizationCode: the token it stores and the
\* lifetime it reports
originalExchange(client) ==
    [clientId |-> client,
     expiresAt |-> now + PROVIDER_TTL_SECS * MsPerSec,
     expires_in |-> PROVIDER_TTL_SECS]

\* mutant: the provider's lifetime is left as it is
exchangeAuthorizationCode_keepProvider(st, issuedToken) == issuedToken

\* oauthProvider.exchangeAuthorizationCode after originalExchange returned:
\* the stored expiry and the reported lifetime are rewritten from
\* accessTokenTtlSecs
exchangeAuthorizationCode(st, issuedToken) ==
    [issuedToken EXCEPT
        !.expiresAt = now + st.accessTokenTtlSecs * MsPerSec,
        !.expires_in = st.accessTokenTtlSecs]

ExchangeArg(client, code, token, expires_in) ==
    [client |-> client, code |-> code, token |-> token,
     expires_in |-> expires_in]

\* POST /oauth/token with grant_type=authorization_code and the verifier
\* that matches the code's challenge, behind requireOAuthActive: the SDK's
\* token handler asks the provider for the code's challenge (an unknown
\* code throws) and calls oauthProvider.exchangeAuthorizationCode, which
\* throws for a code issued to another client
ExchangeAuthorizationCode(client, code) ==
    /\ IF ~requireOAuthActive
       THEN /\ resp' = Response("exchange", "404",
                                ExchangeArg(client, code, EmptyStr, 0))
            /\ UNCHANGED <<tokens, codes, exchanged, refreshes>>
       ELSE IF code \notin DOMAIN codes
       THEN /\ resp' = Response("exchange", "500",
                                ExchangeArg(client, code, EmptyStr, 0))
            /\ UNCHANGED <<tokens, codes, exchanged, refreshes>>
       ELSE IF codes[code].client # client
       THEN /\ resp' = Response("exchange", "500",
                                ExchangeArg(client, code, EmptyStr, 0))
            /\ UNCHANGED <<tokens, codes, exchanged, refreshes>>
       ELSE LET accessToken == TokenStr(Cardinality(DOMAIN tokens) + 1)
                issuedToken == exchangeAuthorizationCode(
                                   state, originalExchange(client))
            IN  /\ codes' = consumeCode(codes, code)
                /\ tokens' = With(tokens, accessToken,
                                  [clientId |-> issuedToken.clientId,
                                   expiresAt |-> issuedToken.expiresAt])
                /\ exchanged' = exchanged \cup {code}
                /\ refreshes' = With(refreshes, RefreshStr(refreshes),
                                     [client |-> client, used |-> FALSE])
                /\ resp' = Response("exchange", "200",
                              ExchangeArg(client, code, accessToken,
                                          issuedToken.expires_in))
    /\ UNCHANGED <<state, logVars, sessionVars, pendingAuthorizations, timers,
                   uuids, authorized, decided, issued, clockVars>>

(***************************************************************************)
(* Inputs.                                                                 *)
(***************************************************************************)
ModeInputs == AuthModes \cup {"basic"}
RejectInputs == RejectModes \cup {"403"}
SecretInputs == {JStr(STR_a), JStr(STR_a_b), JStr(EmptyStr), JNum}
SchemeInputs == {STR_Bearer, STR_bearer, STR_Basic}
CredentialInputs == {STR_testToken, STR_a, STR_a_b, STR_x, TokenStr(1)}
HeaderInputs ==
    {EmptyStr, STR_Bearer, STR_Bearer \o <<SP, SP>> \o STR_a,
     STR_BEARER \o <<SP>> \o STR_a,
     STR_Bearer \o <<SP>> \o STR_testToken \o <<SP>> \o STR_x}
    \cup {s \o <<SP>> \o c : s \in SchemeInputs, c \in CredentialInputs}
ClientInputs == {"client-1"}
TickInputs == {1, 15000}

(***************************************************************************)
(* Specification of the gateway in none / bearer mode and of the reject    *)
(* toggles.                                                                *)
(***************************************************************************)
NextGateway ==
    \/ \E mode \in ModeInputs : ApiAuthMode(mode)
    \/ \E token \in SecretInputs : ApiBearerToken(token)
    \/ \E target \in {"bearer", "oauth", "basic"}, mode \in RejectInputs :
          ApiRejectAuth(target, mode)
    \/ \E c \in ClientInputs :
          /\ Cardinality(DOMAIN tokens) < MaxTokens
          /\ ExchangeRefreshToken(c, NeverIssued)
    \/ \E h \in HeaderInputs : Gateway(h)

SpecGateway == Init /\ [][NextGateway]_vars

(***************************************************************************)
(* Specification of the delegated-flow token checks, with a clock.         *)
(***************************************************************************)
OAuthHeaderInputs ==
    {EmptyStr, STR_Bearer \o <<SP>> \o TokenStr(1),
     STR_Bearer \o <<SP>> \o STR_x, STR_Basic \o <<SP>> \o TokenStr(1)}
IntrospectInputs == {EmptyStr, TokenStr(1), STR_x}

NextOAuth ==
    \/ \E mode \in AuthModes : ApiAuthMode(mode)
    \/ \E mode \in RejectModes : ApiRejectAuth("oauth", mode)
    \/ \E c \in ClientInputs :
          /\ Cardinality(DOMAIN tokens) < MaxTokens
          /\ ExchangeRefreshToken(c, NeverIssued)
    \/ \E h \in OAuthHeaderInputs : Gateway(h)
    \/ \E t \in IntrospectInputs : Introspect(t)
    \/ \E d \in TickInputs : Tick(d)

SpecOAuth == Init /\ [][NextOAuth]_vars

(***************************************************************************)
(* Claims about the auth gateway.                                          *)
(***************************************************************************)
GatewayAnswered == resp.op = "gateway"
BearerHeader(value) == STR_Bearer \o <<SP>> \o value

\* the scheme of a header: the text before its first space
SchemeOf(h) == Elem(split(h), 1)
\* the credential of a header: all the text after its first space
CredentialOf(h) == SubSeq(h, Len(SchemeOf(h)) + 2, Len(h))

\* C3: in bearer mode with rejectBearer = none, a request carrying
\* "Bearer <bearerToken>" passes the gateway, for every secret the control
\* plane accepted.
C3_BearerSecretPasses ==
    (/\ GatewayAnswered
     /\ state.authMode = "bearer"
     /\ state.rejectBearer = "none"
     /\ resp.arg = BearerHeader(state.bearerToken))
    => resp.status = "next"

\* C4: in bearer mode with rejectBearer = none, a request whose header is
\* missing, whose scheme is not Bearer, or whose credential (the text after
\* the scheme) is not exactly the shared secret is answered 401.  Stated
\* with the scheme compared in any letter case, as the code compares it.
C4_OnlyExactMatchPasses ==
    (/\ GatewayAnswered
     /\ state.authMode = "bearer"
     /\ state.rejectBearer = "none"
     /\ \/ resp.arg = EmptyStr
        \/ toLowerCase(SchemeOf(resp.arg)) # STR_bearer
        \/ CredentialOf(resp.arg) # state.bearerToken)
    => resp.status = "401"

\* C5: in bearer mode with rejectBearer = 401 or 500 every request is
\* answered with exactly that status, the correct credentials included.
C5_RejectBearerShortCircuits ==
    (/\ GatewayAnswered
     /\ state.authMode = "bearer"
     /\ state.rejectBearer \in {"401", "500"})
    => resp.status = state.rejectBearer

C5_Witness ==
    /\ GatewayAnswered
    /\ state.authMode = "bearer"
    /\ state.rejectBearer = "500"
    /\ resp.arg = BearerHeader(state.bearerToken)
    /\ resp.status = "500"

\* C6: in mode none every request passes, whatever its header and whatever
\* the reject toggles; rejectOAuth has no effect in bearer mode (with
\* rejectBearer = none the answer is next or 401, and next for the exact
\* secret) and rejectBearer has none in oauth mode (with rejectOAuth = none
\* the answer is next or 401, and next for a stored, unexpired token).
C6_TogglesOnlyInTheirMode ==
    GatewayAnswered =>
        /\ state.authMode = "none" => resp.status = "next"
        /\ (state.authMode = "bearer" /\ state.rejectBearer = "none") =>
              /\ resp.status \in {"next", "401"}
              /\ (/\ resp.arg = BearerHeader(state.bearerToken)
                  /\ Len(split(state.bearerToken)) = 1)
                 => resp.status = "next"
        /\ (state.authMode = "oauth" /\ state.rejectOAuth = "none") =>
              /\ resp.status \in {"next", "401"}
              /\ \A t \in DOMAIN tokens :
                    (/\ resp.arg = BearerHeader(t)
                     /\ now <= (tokens[t].expiresAt \div MsPerSec) * MsPerSec)
                    => resp.status = "next"

C6_Witness ==
    /\ GatewayAnswered
    /\ state.authMode = "none"
    /\ state.rejectBearer = "500"
    /\ state.rejectOAuth = "401"
    /\ resp.arg = EmptyStr
    /\ resp.status = "next"

\* C7: in oauth mode rejectOAuth = 401 answers every request 401 and
\* rejectOAuth = 500 answers every request 500, whatever the request
\* carries; with rejectOAuth = none a request passes only with a stored,
\* unexpired token and is answered 401 otherwise.
C7_RejectOAuthShortCircuits ==
    (GatewayAnswered /\ state.authMode = "oauth") =>
        /\ state.rejectOAuth = "401" => resp.status = "401"
        /\ state.rejectOAuth = "500" => resp.status = "500"
        /\ state.rejectOAuth = "none" =>
              /\ resp.status \in {"next", "401"}
              /\ resp.status = "next" =>
                    \E t \in DOMAIN tokens :
                        /\ resp.arg = BearerHeader(t)
                        /\ now <= tokens[t].expiresAt

\* C8: in oauth mode token introspection answers 401 when rejectOAuth = 401
\* and a server error (500) when rejectOAuth = 500.
C8_IntrospectInjectedOutcome ==
    (/\ resp.op = "introspect"
     /\ state.authMode = "oauth"
     /\ resp.arg # EmptyStr
     /\ state.rejectOAuth # "none")
    => resp.status = state.rejectOAuth

(***************************************************************************)
(* Specification of the activity log.                                      *)
(***************************************************************************)
NextLog ==
    \/ RequestFinished("mcp", "200")
    \/ ApiClearLog

SpecLog == Init /\ [][NextLog]_vars

(***************************************************************************)
(* Specification of the session registry under auth-mode changes.          *)
(***************************************************************************)
SessionHeaderInputs == {EmptyStr, BearerHeader(STR_testToken)}
SidInputs == 0..MaxSessions

NextSessions ==
    \/ \E mode \in ModeInputs : ApiAuthMode(mode)
    \/ \E m \in {"POST", "GET", "DELETE"}, sid \in SidInputs,
          init \in BOOLEAN, h \in SessionHeaderInputs :
          McpRequest(m, sid, init, h)
    \/ \E r \in 1..MaxInflight : ResumeConnect(r)
    \/ \E r \in 1..MaxInflight : ResumeHandleRequest(r)

SpecSessions == Init /\ [][NextSessions]_vars

(***************************************************************************)
(* Specification of the session registry under capability changes.         *)
(***************************************************************************)
ToolInputs == {"echo", "get-time", "nope"}
VersionInputs == {"v1", "v2", "v3"}

NextTools ==
    \/ \E t \in ToolInputs, e \in BOOLEAN : ApiToolToggle(t, e)
    \/ \E t \in ToolInputs, v \in VersionInputs : ApiToolVersion(t, v)
    \/ \E sid \in 0..MaxToolSessions, init \in BOOLEAN :
          /\ DOMAIN inflight = {}
          /\ nextSid < MaxToolSessions
          /\ McpRequest("POST", sid, init, BearerHeader(STR_testToken))
    \/ \E r \in 1..MaxInflight : ResumeConnect(r)
    \/ \E r \in 1..MaxInflight : ResumeHandleRequest(r)

SpecTools == Init /\ [][NextTools]_vars

(***************************************************************************)
(* Claims about the session registry and the activity log.                 *)
(***************************************************************************)
\* C1: when set-auth-mode returns (any valid mode, the current one
\* included) after starting with one or more registered sessions, the
\* registry is empty.
C1_SetAuthModeEmptiesRegistry ==
    (resp.op = "auth-mode" /\ resp.status = "200" /\ resp.before >= 1)
    => DOMAIN sessions = {}

C1_Witness ==
    /\ resp.op = "auth-mode"
    /\ resp.status = "200"
    /\ resp.before >= 1
    /\ resp.prevMode = state.authMode
    /\ DOMAIN sessions = {}

\* C2: no session admitted under a previous authentication mode survives a
\* mode change: the registry never holds a session that the gateway
\* admitted before the most recent setAuthMode call under a mode other than
\* the current one.
C2_NoStaleSessionSurvives ==
    \A sid \in DOMAIN sessions :
        ~(sessions[sid].stale /\ sessions[sid].admittedMode # state.authMode)

\* C9: the log never holds more than 200 entries; it is exactly the last
\* (at most 200) entries appended since the last clear, in append order;
\* right after clear-log it is empty.
LastOf(seq, n) ==
    IF Len(seq) <= n THEN seq ELSE SubSeq(seq, Len(seq) - n + 1, Len(seq))

C9_LogKeepsLast200 ==
    /\ Len(log) <= MAX_LOG_ENTRIES
    /\ log = LastOf(appended, MAX_LOG_ENTRIES)
    /\ resp.op = "clear-log" => log = <<>>

C9_Witness ==
    /\ Len(appended) > MAX_LOG_ENTRIES
    /\ logSeq > Len(appended)
    /\ Len(log) = MAX_LOG_ENTRIES
    /\ log[1].seq = logSeq - MAX_LOG_ENTRIES + 1
    /\ log[MAX_LOG_ENTRIES].seq = logSeq

\* the version a registration of tool c is expected to carry under st
ConfiguredVersion(st, c) ==
    IF c \in DOMAIN st.toolVersions THEN st.toolVersions[c] ELSE "static"

\* C10: toggling a known capability c off removes c from every registered
\* session and removes no session; toggling it on registers c, in every
\* registered session that lacks it, at the version configured at that
\* moment, and removes no session.
C10_ToggleOffOnLiveSession ==
    [][\A c \in DOMAIN state.enabledTools :
          /\ ApiToolToggle(c, FALSE) =>
                /\ DOMAIN sessions' = DOMAIN sessions
                /\ \A s \in DOMAIN sessions :
                      c \notin DOMAIN sessions'[s].registeredTools
          /\ ApiToolToggle(c, TRUE) =>
                /\ DOMAIN sessions' = DOMAIN sessions
                /\ \A s \in DOMAIN sessions :
                      c \notin DOMAIN sessions[s].registeredTools =>
                         /\ c \in DOMAIN sessions'[s].registeredTools
                         /\ sessions'[s].registeredTools[c].version =
                               ConfiguredVersion(state', c)]_vars

C10_Witness ==
    /\ resp.op = "tool-on"
    /\ resp.arg = <<"echo">>
    /\ state.toolVersions["echo"] = "v2"
    /\ \E s \in DOMAIN sessions :
          /\ "echo" \in DOMAIN sessions[s].registeredTools
          /\ sessions[s].registeredTools["echo"] =
                [version |-> "v2", flaky |-> TRUE]

(***************************************************************************)
(* Claims about capability changes and session creation.                   *)
(***************************************************************************)
\* the capabilities of the catalogue
Capabilities == {getAllToolNames[i] : i \in 1..Len(getAllToolNames)}

\* the registrations a session is expected to hold under configuration st:
\* the enabled capabilities, each at its configured version
ExpectedVersions(st) ==
    [c \in {n \in Capabilities : EnabledOf(st, n)} |-> ConfiguredVersion(st, c)]

\* the versions a session's registrations carry
VersionsOf(entry) ==
    [c \in DOMAIN entry.registeredTools |-> entry.registeredTools[c].version]

\* C11: an accepted version change of capability c to v keeps the set of
\* registered sessions (each keyed by its transport's session id), keeps
\* every other registration and every other field of every session, and in
\* each session: where c is registered it stays registered, under the same
\* name, at v; where c is not registered it is registered at v exactly if c
\* is enabled.
C11_VersionChangeInPlace ==
    [][\A c \in VersionedNames, v \in {"v1", "v2"} :
          ApiToolVersion(c, v) =>
             /\ DOMAIN sessions' = DOMAIN sessions
             /\ \A s \in DOMAIN sessions :
                   LET old == sessions[s].registeredTools
                       new == sessions'[s].registeredTools
                   IN  /\ DOMAIN new \ {c} = DOMAIN old \ {c}
                       /\ \A n \in DOMAIN old \ {c} : new[n] = old[n]
                       /\ sessions'[s].admittedMode = sessions[s].admittedMode
                       /\ sessions'[s].stale = sessions[s].stale
                       /\ c \in DOMAIN old =>
                             (c \in DOMAIN new /\ new[c].version = v)
                       /\ (c \notin DOMAIN old /\ EnabledOf(state, c)) =>
                             (c \in DOMAIN new /\ new[c].version = v)
                       /\ (c \notin DOMAIN old /\ ~EnabledOf(state, c)) =>
                             c \notin DOMAIN new]_vars

\* a version change that has just replaced echo in one session (the replaced
\* registration is the one made by update) and registered it in another
C11_Witness ==
    /\ resp.op = "tool-version"
    /\ resp.status = "200"
    /\ resp.arg = <<"echo">>
    /\ state.toolVersions["echo"] = "v2"
    /\ \E s, t \in DOMAIN sessions :
          /\ "echo" \in DOMAIN sessions[s].registeredTools
          /\ sessions[s].registeredTools["echo"] = updateRegistration(
                 getToolDef("echo", "v2"))
          /\ "echo" \in DOMAIN sessions[t].registeredTools
          /\ sessions[t].registeredTools["echo"] = registerToolOnServer(
                 getToolDef("echo", "v2"))

\* C12: the entry a request creates when it names no registered session
\* holds exactly the capabilities enabled at that moment, each at the
\* version configured at that moment.
C12_SessionSeededFromConfig ==
    [][\A r \in DOMAIN inflight' \ DOMAIN inflight :
          VersionsOf(inflight'[r].entry) = ExpectedVersions(state)]_vars

\* an entry just created under a configuration that is not the initial one:
\* echo at v2 and get-time enabled
C12_Witness ==
    /\ resp.op = "POST"
    /\ resp.status = "pending"
    /\ state.toolVersions["echo"] = "v2"
    /\ state.enabledTools["get-time"]
    /\ \E r \in DOMAIN inflight :
          /\ inflight[r].pc = "connect"
          /\ VersionsOf(inflight[r].entry) = ExpectedVersions(state)
          /\ "get-time" \in DOMAIN inflight[r].entry.registeredTools
          /\ "echo" \in DOMAIN inflight[r].entry.registeredTools
          /\ inflight[r].entry.registeredTools["echo"].version = "v2"

\* C13: in every reachable state every session in the registry holds
\* exactly the currently enabled capabilities at their currently configured
\* versions, sessions whose creation interleaves with a capability setter
\* included.
C13_RegistryFollowsConfig ==
    \A sid \in DOMAIN sessions :
        VersionsOf(sessions[sid]) = ExpectedVersions(state)

(***************************************************************************)
(* Specification of tool invocations under the flaky toggle.               *)
(***************************************************************************)
FlakyEnabledInputs == {JBool(TRUE), JBool(FALSE), JUndef}
FlakyPctInputs == {JInt(0), JInt(100), JInt(150), JInt(0 - 5), JUndef}
RollInputs == {0, 50, 99}
CallInputs == {"echo", "add", "get-time"}

NextFlaky ==
    \/ \E e \in FlakyEnabledInputs, p \in FlakyPctInputs : ApiFlakyTools(e, p)
    \/ \E e \in BOOLEAN : ApiToolToggle("echo", e)
    \/ \E v \in {"v1", "v2"} : ApiToolVersion("echo", v)
    \/ /\ DOMAIN inflight = {}
       /\ nextSid < MaxFlakySessions
       /\ McpRequest("POST", NoSid, TRUE, BearerHeader(STR_testToken))
    \/ \E r \in 1..MaxInflight : ResumeConnect(r)
    \/ \E r \in 1..MaxInflight : ResumeHandleRequest(r)
    \/ \E sid \in 1..MaxFlakySessions, n \in CallInputs, roll \in RollInputs :
          CallTool(sid, n, roll, BearerHeader(STR_testToken))

SpecFlaky == Init /\ [][NextFlaky]_vars

\* a capability registered in the session was invoked
ToolInvoked == resp.op = "call" /\ resp.status # "unknown-tool"

\* C14: with flakyTools = true and flakyPct = 100 every invocation of a
\* registered capability returns the simulated failure, in every session
\* and whatever has happened to the registration since it was made.
C14_FlakyAlwaysFailsAt100 ==
    (ToolInvoked /\ state.flakyTools /\ state.flakyPct = 100)
    => resp.status = "flaky-failure"

\* C15: with flakyTools = false, or with flakyPct = 0, no invocation
\* returns the simulated failure: the handler's result is returned.
C15_NoFlakyFailureWhenOff ==
    (ToolInvoked /\ (~state.flakyTools \/ state.flakyPct = 0))
    => resp.status = "handler"

\* flaky mode on at 0 percent, the lowest roll, a registration that rolls
C15_Witness ==
    /\ ToolInvoked
    /\ state.flakyTools
    /\ state.flakyPct = 0
    /\ resp.arg.roll = 0
    /\ sessions[resp.sid].registeredTools[resp.arg.name].flaky
    /\ resp.status = "handler"

(***************************************************************************)
(* Specification of the consent decision and the code exchange.            *)
(***************************************************************************)
FlowClientInputs == {"client-1", "client-2"}
FlowStateInputs == {NoParam, "xyz", TamperedState}
DecisionInputs == {"approve", "decline", "wrong-code", "wrong-state", "maybe"}
UnknownId == "no-such-id"

\* time passes while an authorization waits for its timer
FlowTick ==
    /\ \E id \in DOMAIN pendingAuthorizations : now < timers[id]
    /\ Tick(PENDING_TTL_MS)

NextFlow ==
    \/ \E mode \in {"oauth", "none"} : ApiAuthMode(mode)
    \/ \E st \in FlowStateInputs :
          /\ DOMAIN pendingAuthorizations = {}
          /\ requireOAuthActive => Cardinality(authorized) < MaxPending
          /\ Authorize("client-1", st)
    \/ \E id \in authorized, a \in DecisionInputs : AuthorizeDecision(id, a)
    \/ AuthorizeDecision(UnknownId, "approve")
    \/ \E id \in authorized : PendingTimeout(id)
    \/ \E c \in FlowClientInputs, code \in DOMAIN issued :
          ExchangeAuthorizationCode(c, code)
    \/ ExchangeAuthorizationCode("client-1", BogusCode)
    \/ FlowTick

SpecFlow == Init /\ [][NextFlow]_vars

(***************************************************************************)
(* Claims about the consent decision and the code exchange.  The           *)
(* endpoints sit behind requireOAuthActive: outside oauth mode every       *)
(* submission is answered 404 and changes nothing.                         *)
(***************************************************************************)
HonouredActions == {"approve", "decline", "wrong-code", "wrong-state"}
MintingActions == {"approve", "wrong-state"}

\* C16: a pending authorization is consumed by at most one decision.  A
\* submission that finds it (any of the four actions) removes it and
\* performs the action: a redirect, with a new code in the code store
\* exactly for approve and wrong-state.  Every later submission for the
\* same id, whatever its action, mints no code and is answered "expired or
\* already used".
C16_DecisionHonouredOnce ==
    [][\A id \in authorized, a \in DecisionInputs :
          AuthorizeDecision(id, a) =>
             /\ id \in decided =>
                   /\ codes' = codes
                   /\ resp'.status \in {"400", "404"}
                   /\ requireOAuthActive =>
                         /\ resp'.status = "400"
                         /\ resp'.arg.body = "expired or already used"
             /\ (/\ requireOAuthActive
                 /\ id \in DOMAIN pendingAuthorizations
                 /\ a \in HonouredActions) =>
                   /\ id \notin decided
                   /\ id \in decided'
                   /\ id \notin DOMAIN pendingAuthorizations'
                   /\ resp'.status = "302"
                   /\ resp'.arg.action = a
                   /\ a \in MintingActions =>
                         Cardinality(DOMAIN codes') =
                            Cardinality(DOMAIN codes) + 1
                   /\ a \notin MintingActions => codes' = codes]_vars

\* a second submission, asking to approve, for an id that a decision has
\* consumed: refused, and no code in the store
C16_Witness ==
    /\ resp.op = "decision"
    /\ resp.arg.id \in decided
    /\ resp.arg.action = "approve"
    /\ resp.status = "400"
    /\ resp.arg.body = "expired or already used"
    /\ DOMAIN codes = {}
    /\ exchanged = {}

\* C17: an approve decision redirects with a new code, stored with the
\* pending authorization's client and parameters, with the original state
\* and with no error; the first exchange of a code minted by approve, by
\* the client it was issued to, succeeds, reports expires_in =
\* accessTokenTtlSecs and stores a token that expires accessTokenTtlSecs
\* seconds after the exchange.
C17_ApproveThenExchange ==
    [][/\ \A id \in authorized :
             (/\ AuthorizeDecision(id, "approve")
              /\ requireOAuthActive
              /\ id \in DOMAIN pendingAuthorizations) =>
                /\ resp'.status = "302"
                /\ resp'.arg.code \in DOMAIN codes' \ DOMAIN codes
                /\ codes'[resp'.arg.code] = pendingAuthorizations[id]
                /\ resp'.arg.state = pendingAuthorizations[id].params.state
                /\ resp'.arg.error = NoParam
       /\ \A c \in FlowClientInputs, code \in DOMAIN issued :
             (/\ ExchangeAuthorizationCode(c, code)
              /\ requireOAuthActive
              /\ issued[code].action = "approve"
              /\ code \notin exchanged
              /\ c = issued[code].client) =>
                /\ resp'.status = "200"
                /\ resp'.arg.expires_in = state.accessTokenTtlSecs
                /\ resp'.arg.token \in DOMAIN tokens' \ DOMAIN tokens
                /\ tokens'[resp'.arg.token].clientId = c
                /\ tokens'[resp'.arg.token].expiresAt - now =
                      state.accessTokenTtlSecs * MsPerSec]_vars

\* an approved code exchanged five minutes after the authorization began
C17_Witness ==
    /\ resp.op = "exchange"
    /\ resp.status = "200"
    /\ issued[resp.arg.code].action = "approve"
    /\ issued[resp.arg.code].params.state = "xyz"
    /\ now = PENDING_TTL_MS
    /\ resp.arg.expires_in = InitialTtlSecs
    /\ tokens[resp.arg.token].expiresAt = now + InitialTtlSecs * MsPerSec

\* C18: once a code has been exchanged, every later exchange of it fails
\* and mints no token.
C18_CodeSingleUse ==
    [][\A c \in FlowClientInputs, code \in exchanged :
          ExchangeAuthorizationCode(c, code) =>
             /\ resp'.status # "200"
             /\ tokens' = tokens]_vars

\* the client the code was issued to presents it again, in oauth mode
C18_Witness ==
    /\ resp.op = "exchange"
    /\ resp.arg.code \in exchanged
    /\ resp.arg.client = issued[resp.arg.code].client
    /\ state.authMode = "oauth"
    /\ resp.status = "500"
    /\ Cardinality(DOMAIN tokens) = 1

\* C19: decline and wrong-code put nothing in the code store; decline
\* redirects with error=access_denied, the original state and no code;
\* wrong-code redirects with the original state and a code that is not in
\* the code store, then or ever, and exchanging it fails.
C19_DeclineAndWrongCodeMintNothing ==
    [][/\ BogusCode \notin DOMAIN codes'
       /\ \A id \in authorized :
             /\ AuthorizeDecision(id, "decline") =>
                   /\ codes' = codes
                   /\ resp'.status = "302" =>
                         /\ resp'.arg.error = "access_denied"
                         /\ resp'.arg.code = NoParam
                         /\ resp'.arg.state =
                               pendingAuthorizations[id].params.state
             /\ AuthorizeDecision(id, "wrong-code") =>
                   /\ codes' = codes
                   /\ resp'.status = "302" =>
                         /\ resp'.arg.error = NoParam
                         /\ resp'.arg.code # NoParam
                         /\ resp'.arg.code \notin DOMAIN codes'
                         /\ resp'.arg.state =
                               pendingAuthorizations[id].params.state
       /\ \A c \in FlowClientInputs :
             ExchangeAuthorizationCode(c, BogusCode) =>
                /\ resp'.status # "200"
                /\ tokens' = tokens]_vars

\* a wrong-code decision honoured for a request that carried a state
C19_Witness ==
    /\ resp.op = "decision"
    /\ resp.arg.action = "wrong-code"
    /\ resp.status = "302"
    /\ resp.arg.code = BogusCode
    /\ resp.arg.original.params.state = "xyz"
    /\ resp.arg.state = "xyz"
    /\ DOMAIN codes = {}

\* C20: a wrong-state decision mints a valid code (stored with the pending
\* authorization's client and parameters) and redirects with a state that
\* differs from the state of the authorization request, whatever that
\* state was, a missing one included.
C20_WrongStateDiffers ==
    (/\ resp.op = "decision"
     /\ resp.arg.action = "wrong-state"
     /\ resp.status = "302") =>
        /\ resp.arg.code \in DOMAIN codes
        /\ codes[resp.arg.code] = resp.arg.original
        /\ resp.arg.state # resp.arg.original.params.state

(***************************************************************************)
(* Specification of the refresh exchange.  No route of api.ts writes       *)
(* accessTokenTtlSecs or failOAuthRefresh (the page posts them to          *)
(* /api/oauth-settings, which has no handler), so the two fields of the    *)
(* store are drawn when the process starts.  Refresh values are handed out *)
(* by the code exchange and by the refresh exchange.                       *)
(***************************************************************************)
TtlInputs == {InitialTtlSecs, 60}
NowInputs == {0, 1500}

InitRefresh ==
    /\ state \in {[InitialState EXCEPT !.accessTokenTtlSecs = ttlSecs,
                                       !.failOAuthRefresh = fail] :
                     ttlSecs \in TtlInputs, fail \in BOOLEAN}
    /\ log = <<>>
    /\ logSeq = 0
    /\ appended = <<>>
    /\ sessions = NoSessions
    /\ inflight = NoSessions
    /\ nextSid = 0
    /\ tokens = [t \in {} |-> 0]
    /\ pendingAuthorizations = [i \in {} |-> 0]
    /\ codes = [c \in {} |-> 0]
    /\ timers = [i \in {} |-> 0]
    /\ uuids = 0
    /\ authorized = {}
    /\ decided = {}
    /\ issued = [c \in {} |-> 0]
    /\ exchanged = {}
    /\ refreshes = [v \in {} |-> 0]
    /\ now \in NowInputs
    /\ ticks = 0
    /\ requests = <<>>
    /\ contacts = SeedContacts
    /\ handlers = <<>>
    /\ resp = NoResp

\* the refresh values a request may present
RefreshInputs ==
    {NeverIssued}
        \cup {"refresh-" \o ToString(n) : n \in 1..(MaxRefreshes + MaxPending)}

\* the access tokens the model can mint
TokenValues == {TokenStr(n) : n \in 1..(MaxRefreshes + MaxPending)}

NextRefresh ==
    \/ ApiAuthMode("oauth")
    \/ \E mode \in {"none", "401"} : ApiRejectAuth("oauth", mode)
    \/ /\ DOMAIN refreshes = {}
       /\ DOMAIN pendingAuthorizations = {}
       /\ requireOAuthActive => Cardinality(authorized) < MaxPending
       /\ Authorize("client-1", NoParam)
    \/ \E id \in DOMAIN pendingAuthorizations : AuthorizeDecision(id, "approve")
    \/ \E code \in DOMAIN codes : ExchangeAuthorizationCode("client-1", code)
    \/ \E c \in FlowClientInputs, rt \in DOMAIN refreshes \cup {NeverIssued} :
          /\ Cardinality(DOMAIN refreshes) < MaxRefreshes
          /\ ExchangeRefreshToken(c, rt)

SpecRefresh == InitRefresh /\ [][NextRefresh]_vars

(***************************************************************************)
(* Claims about the refresh exchange.  The token endpoint of the delegated *)
(* flow is served in oauth mode only; the claims are about the requests it *)
(* handles.                                                                *)
(***************************************************************************)
\* C21: while failOAuthRefresh is true, every refresh exchange fails with
\* the invalid-token error (400), whatever refresh value the request
\* carries, one the server handed out before included, and no token is
\* added to the store.
C21_RefreshAlwaysRejected ==
    [][(/\ requireOAuthActive
        /\ state.failOAuthRefresh
        /\ resp'.op = "refresh") =>
          \A c \in FlowClientInputs, rt \in RefreshInputs :
             (/\ c = resp'.arg.client
              /\ rt = resp'.arg.refreshToken
              /\ ExchangeRefreshToken(c, rt)) =>
                 /\ resp'.status = "400"
                 /\ tokens' = tokens
                 /\ refreshes' = refreshes]_vars

\* a refresh value handed out by the code exchange, presented and rejected
C21_Witness ==
    /\ resp.op = "refresh"
    /\ resp.status = "400"
    /\ resp.prevMode = "oauth"
    /\ state.failOAuthRefresh
    /\ resp.arg.presented.issued
    /\ resp.arg.presented.client = resp.arg.client

\* C22: while failOAuthRefresh is false, a refresh exchange succeeds for
\* any refresh value (never handed out, already used, handed out to another
\* client): it mints a new access token whose lifetime is the current
\* accessTokenTtlSecs and which verifies (no rejection being injected), and
\* returns a new refresh value.
C22_RefreshAlwaysMints ==
    [][(/\ requireOAuthActive
        /\ ~state.failOAuthRefresh
        /\ resp'.op = "refresh") =>
          \A c \in FlowClientInputs, rt \in RefreshInputs, tok \in TokenValues :
             (/\ c = resp'.arg.client
              /\ rt = resp'.arg.refreshToken
              /\ tok = TokenStr(Cardinality(DOMAIN tokens) + 1)
              /\ ExchangeRefreshToken(c, rt)) =>
                 /\ resp'.status = "200"
                 /\ resp'.arg.access_token = tok
                 /\ tok \notin DOMAIN tokens
                 /\ tok \in DOMAIN tokens'
                 /\ tokens'[tok].clientId = c
                 /\ tokens'[tok].expiresAt - now =
                       state.accessTokenTtlSecs * MsPerSec
                 /\ resp'.arg.expires_in = state.accessTokenTtlSecs
                 /\ state.rejectOAuth = "none" => verifyAccessToken(tok)'.ok
                 /\ resp'.arg.refresh_token \notin DOMAIN refreshes
                 /\ resp'.arg.refresh_token # rt]_vars

\* a refresh value handed out to one client and used already, presented by
\* another client, with a lifetime other than the initial one
C22_Witness ==
    /\ resp.op = "refresh"
    /\ resp.status = "200"
    /\ resp.arg.presented.issued
    /\ resp.arg.presented.used
    /\ resp.arg.presented.client # resp.arg.client
    /\ state.accessTokenTtlSecs # InitialTtlSecs
    /\ resp.arg.access_token \in DOMAIN tokens

\* a refresh exchange that presented a value the server never handed out
C22_WitnessNeverIssued ==
    /\ resp.op = "refresh"
    /\ resp.status = "200"
    /\ ~resp.arg.presented.issued

(***************************************************************************)
(* Specification of continuation and termination requests: requests that   *)
(* carry the shared secret, which the gateway lets through in none and in  *)
(* bearer mode, while the mode changes.                                    *)
(***************************************************************************)
NextContinuation ==
    \/ \E mode \in {"none", "bearer"} : ApiAuthMode(mode)
    \/ \E m \in {"POST", "GET", "DELETE"}, sid \in SidInputs, init \in BOOLEAN :
          McpRequest(m, sid, init, BearerHeader(STR_testToken))
    \/ \E r \in 1..MaxInflight : ResumeConnect(r)
    \/ \E r \in 1..MaxInflight : ResumeHandleRequest(r)

SpecContinuation == Init /\ [][NextContinuation]_vars

(***************************************************************************)
(* Claims about continuation and termination requests.                     *)
(***************************************************************************)
\* C23: a POST that carries a session id which is not in the registry is
\* always answered with a client error and never adds a session to the
\* registry, whatever its body, an initialize request included.
C23_UnknownSessionNeverCreates ==
    [][\A r \in 1..MaxInflight :
          (/\ ResumeHandleRequest(r)
           /\ inflight[r].continuation) =>
              /\ resp'.status = "400"
              /\ sessions' = sessions]_vars

\* C24: a DELETE for a registered id removes that session and no other; a
\* DELETE or GET without an id or with an unknown id is answered 400 and
\* leaves the registry as it is; an id that is in neither the registry nor
\* a suspended request (a terminated one is such) never enters the registry
\* again, so later GET and DELETE requests for it are answered 400.
C24_TerminationRemovesOneSession ==
    [][/\ resp'.op \in {"GET", "DELETE"} =>
            \A m \in {"GET", "DELETE"}, sid \in SidInputs :
               (/\ m = resp'.op
                /\ sid = resp'.sid
                /\ McpRequest(m, sid, FALSE, BearerHeader(STR_testToken))) =>
                   IF sid # NoSid /\ sid \in DOMAIN sessions
                   THEN /\ resp'.status = "200"
                        /\ m = "DELETE" => sessions' = Without(sessions, sid)
                        /\ m = "GET" => sessions' = sessions
                        /\ UNCHANGED <<inflight, nextSid>>
                   ELSE /\ resp'.status = "400"
                        /\ UNCHANGED sessionVars
       /\ \A sid \in 1..nextSid :
             (/\ sid \notin DOMAIN sessions
              /\ \A r \in DOMAIN inflight : inflight[r].sid # sid) =>
                 sid \notin DOMAIN sessions']_vars

\* one of two registered sessions terminated, the other still registered
C24_Witness ==
    /\ resp.op = "DELETE"
    /\ resp.status = "200"
    /\ resp.before = 2
    /\ resp.sid \notin DOMAIN sessions
    /\ Cardinality(DOMAIN sessions) = 1

\* a GET for an id that was handed out and is registered no more
C24_WitnessUnknownAfter ==
    /\ resp.op = "GET"
    /\ resp.status = "400"
    /\ resp.sid \in 1..nextSid
    /\ resp.sid \notin DOMAIN sessions
    /\ resp.prevMode = state.authMode

(***************************************************************************)
(* Specification of the expiry of pending authorizations: several          *)
(* authorizations wait at the same time, each with its own timer.  Node    *)
(* runs a timer callback once its delay has passed, and time passes:       *)
(* weak fairness of the clock step and of every timer.                     *)
(***************************************************************************)
PendingIds == {Uuid(n) : n \in 1..(2 * MaxExpiring)}

NextExpiry ==
    \/ \E mode \in {"oauth", "none"} : ApiAuthMode(mode)
    \/ /\ requireOAuthActive => Cardinality(authorized) < MaxExpiring
       /\ Authorize("client-1", NoParam)
    \/ \E id \in authorized, a \in {"approve", "maybe"} :
          AuthorizeDecision(id, a)
    \/ \E id \in authorized : PendingTimeout(id)
    \/ FlowTick

SpecExpiry ==
    /\ Init
    /\ [][NextExpiry]_vars
    /\ WF_vars(FlowTick)
    /\ \A id \in PendingIds : WF_vars(PendingTimeout(id))

(***************************************************************************)
(* Claims about the expiry of pending authorizations.                      *)
(***************************************************************************)
\* a step that takes a pending authorization out of the map takes out one,
\* and is a decision for its id or its timer; an id taken out never returns
DestroyedOnce ==
    /\ \A id \in DOMAIN pendingAuthorizations \ DOMAIN pendingAuthorizations' :
          /\ DOMAIN pendingAuthorizations' = DOMAIN pendingAuthorizations \ {id}
          /\ \/ PendingTimeout(id)
             \/ \E a \in DecisionInputs : AuthorizeDecision(id, a)
    /\ \A id \in authorized \ DOMAIN pendingAuthorizations :
          id \notin DOMAIN pendingAuthorizations'

\* the timer of an authorization that a decision consumed changes nothing
\* but itself; a decision for an authorization that its timer deleted is
\* answered 400 and changes nothing
LaterEventIsNoOp ==
    /\ \A id \in authorized \ DOMAIN pendingAuthorizations :
          PendingTimeout(id) =>
             UNCHANGED <<pendingAuthorizations, codes, tokens, state>>
    /\ \A id \in authorized \ DOMAIN pendingAuthorizations :
          \A a \in DecisionInputs :
             (AuthorizeDecision(id, a) /\ requireOAuthActive) =>
                /\ resp'.status = "400"
                /\ UNCHANGED <<flowVars, tokens, state>>

\* C25: every pending authorization is destroyed exactly once, by the first
\* decision for its id or by its five-minute timer, whichever comes first;
\* the other event, arriving later, is a no-op that removes no other entry;
\* a pending authorization always has its timer armed, and every pending
\* authorization is eventually destroyed.
C25_PendingDestroyedExactlyOnce ==
    /\ [][DestroyedOnce /\ LaterEventIsNoOp]_vars
    /\ [](DOMAIN pendingAuthorizations \subseteq DOMAIN timers)
    /\ \A id \in PendingIds :
          (id \in DOMAIN pendingAuthorizations)
             ~> (id \notin DOMAIN pendingAuthorizations)

\* the timer of a consumed authorization has fired while another
\* authorization was waiting, which is still there
C25_Witness ==
    /\ \E id \in decided : id \notin DOMAIN timers
    /\ \E id \in DOMAIN pendingAuthorizations : id \notin decided
    /\ resp = NoResp

\* a decision arrived for an authorization that its timer had deleted
C25_WitnessExpiredFirst ==
    /\ resp.op = "decision"
    /\ resp.status = "400"
    /\ resp.prevMode = "oauth"
    /\ resp.arg.id \in authorized \ decided

(***************************************************************************)
(* Specification of the delegated-flow surface while the mode changes.     *)
(***************************************************************************)
NextSurface ==
    \/ \E mode \in AuthModes : ApiAuthMode(mode)
    \/ /\ DOMAIN pendingAuthorizations = {}
       /\ requireOAuthActive => Cardinality(authorized) < MaxPending
       /\ Authorize("client-1", NoParam)
    \/ \E id \in authorized : AuthorizeDecision(id, "approve")
    \/ \E code \in DOMAIN issued : ExchangeAuthorizationCode("client-1", code)
    \/ /\ Cardinality(DOMAIN tokens) < MaxTokens
       /\ ExchangeRefreshToken("client-1", NeverIssued)
    \/ \E t \in {EmptyStr, TokenStr(1)} : Introspect(t)
    \/ \E doc \in MetadataDocs : Metadata(doc)

SpecSurface == Init /\ [][NextSurface]_vars

(***************************************************************************)
(* Claims about the delegated-flow surface.                                *)
(***************************************************************************)
\* the operations of the surface, as the answers name them
SurfaceOps == {"authorize", "decision", "exchange", "refresh", "introspect",
               "metadata"}

SlowEnabledInputs == {JBool(TRUE), JBool(FALSE), JUndef}
SlowMsInputs == {JInt(0), JInt(2), JInt(3), JInt(5000), JInt(0 - 5), JUndef}

NextChaos ==
    \/ \E enabled \in SlowEnabledInputs, minMs \in SlowMsInputs,
          maxMs \in SlowMsInputs : ApiSlowMode(enabled, minMs, maxMs)
    \/ \E enabled \in FlakyEnabledInputs, pct \in FlakyPctInputs :
          ApiFlakyTools(enabled, pct)
    \/ \E random \in 0..(RandomSteps - 1) : SlowModeDelay(random)

SpecChaos == Init /\ [][NextChaos]_vars

(***************************************************************************)
(* Claims about the fault-injection settings.                              *)
(***************************************************************************)
\* C27: slowMinMs <= slowMaxMs in every reachable state.
C27_SlowMinAtMostMax ==
    state.slowMinMs <= state.slowMaxMs

\* C28: slowModeDelay does not suspend while slowMode is false; while it is
\* true the duration d satisfies slowMinMs <= d <= slowMaxMs, for every
\* configuration the control plane can reach.
C28_DelayWithinRange ==
    resp.op = "delay" =>
       IF ~state.slowMode
       THEN resp.status = "none"
       ELSE /\ resp.status = "suspended"
            /\ state.slowMinMs <= resp.arg.ms
            /\ resp.arg.ms <= state.slowMaxMs

\* C29: in every reachable state 0 <= flakyPct <= 100, slowMinMs >= 0 and
\* slowMaxMs >= 0.
C29_SettingsClamped ==
    /\ 0 <= state.flakyPct
    /\ state.flakyPct <= 100
    /\ state.slowMinMs >= 0
    /\ state.slowMaxMs >= 0

\* a negative duration was posted after a percentage above 100
C29_Witness ==
    /\ resp.op = "slow-mode"
    /\ resp.arg.minMs = JInt(0 - 5)
    /\ resp.arg.maxMs = JInt(0 - 5)
    /\ state.slowMinMs = 0
    /\ state.slowMaxMs = 0
    /\ state.flakyPct = 100

(***************************************************************************)
(* Specification of the control plane's mutations, valid and invalid, with *)
(* sessions registered.                                                    *)
(***************************************************************************)
ControlModeInputs == {"none", "basic"}
ControlSecretInputs == {JStr(STR_a), JStr(EmptyStr), JNum}
ControlToggleInputs == {"echo", "nope", "constructor"}
ControlVersionedInputs == {"echo", "get-time", "constructor"}
ControlVersionInputs == {"v2", "v3"}
ControlTargetInputs == {"bearer", "basic"}
ControlRejectInputs == {"401", "403"}

NextControl ==
    \/ \E mode \in ControlModeInputs : ApiAuthMode(mode)
    \/ \E token \in ControlSecretInputs : ApiBearerToken(token)
    \/ \E t \in ControlToggleInputs, e \in BOOLEAN : ApiToolToggle(t, e)
    \/ \E t \in ControlVersionedInputs, v \in ControlVersionInputs :
          ApiToolVersion(t, v)
    \/ \E target \in ControlTargetInputs, mode \in ControlRejectInputs :
          ApiRejectAuth(target, mode)
    \/ /\ DOMAIN inflight = {}
       /\ nextSid < MaxFlakySessions
       /\ McpRequest("POST", NoSid, TRUE, BearerHeader(STR_testToken))
    \/ \E r \in 1..MaxInflight : ResumeConnect(r)
    \/ \E r \in 1..MaxInflight : ResumeHandleRequest(r)

SpecControl == Init /\ [][NextControl]_vars

(***************************************************************************)
(* Claims about rejected mutations.                                        *)
(***************************************************************************)
\* the answer is 400, and the configuration and the sessions are as before
\* (no auth-change or tool-change listener has run)
Rejected ==
    /\ resp'.status = "400"
    /\ UNCHANGED <<state, sessions, inflight>>

\* C30: a rejected mutation changes nothing: tool-toggle with an unknown
\* name, tool-version with an invalid version or for a tool without
\* versions, auth-mode with an invalid mode, bearer-token with an empty or
\* non-string value and reject-auth with an invalid target or mode are each
\* answered 400 and leave the configuration and the sessions unchanged.
C30_RejectedMutationChangesNothing ==
    [][/\ \A t \in ControlToggleInputs \ Capabilities, e \in BOOLEAN :
             ApiToolToggle(t, e) => Rejected
       /\ \A t \in ControlVersionedInputs, v \in ControlVersionInputs :
             (/\ v \notin {"v1", "v2"} \/ t \notin VersionedNames
              /\ ApiToolVersion(t, v)) => Rejected
       /\ \A mode \in ControlModeInputs \ AuthModes :
             ApiAuthMode(mode) => Rejected
       /\ \A token \in ControlSecretInputs :
             (/\ token.t # "string" \/ token.s = EmptyStr
              /\ ApiBearerToken(token)) => Rejected
       /\ \A target \in ControlTargetInputs, mode \in ControlRejectInputs :
             (/\ target \notin {"bearer", "oauth"} \/ mode \notin RejectModes
              /\ ApiRejectAuth(target, mode)) => Rejected]_vars

(***************************************************************************)
(* Specification of the toggle route with bodies of any shape, with        *)
(* sessions registered.                                                    *)
(***************************************************************************)
ToggleBodyInputs == {JBool(TRUE), JBool(FALSE), JUndef, JStr(STR_a)}

NextToggleBody ==
    \/ \E t \in {"echo", "nope"}, enabled \in ToggleBodyInputs :
          ApiToolToggleBody(t, enabled)
    \/ \E v \in {"v1", "v2"} : ApiToolVersion("echo", v)
    \/ /\ DOMAIN inflight = {}
       /\ nextSid < MaxFlakySessions
       /\ McpRequest("POST", NoSid, TRUE, BearerHeader(STR_testToken))
    \/ \E r \in 1..MaxInflight : ResumeConnect(r)
    \/ \E r \in 1..MaxInflight : ResumeHandleRequest(r)

SpecToggleBody == Init /\ [][NextToggleBody]_vars

(***************************************************************************)
(* Claims about the toggle route.                                          *)
(***************************************************************************)
\* C31: enabledTools maps every tool name to a boolean in every reachable
\* state (a toggle request whose `enabled` is missing or not a boolean is
\* rejected and changes nothing).
C31_EnabledAlwaysBoolean ==
    \A n \in DOMAIN state.enabledTypeof : state.enabledTypeof[n] = "boolean"

(***************************************************************************)
(* Specification of the reject toggles with established sessions: sessions *)
(* are opened in bearer and in oauth mode, the toggles are set and cleared *)
(* and requests carry the ids of the sessions.                             *)
(***************************************************************************)
RejectHeaderInputs ==
    {EmptyStr, BearerHeader(STR_testToken), BearerHeader(TokenStr(1))}

NextReject ==
    \/ \E mode \in {"bearer", "oauth"} : ApiAuthMode(mode)
    \/ \E target \in {"bearer", "oauth"}, mode \in RejectModes :
          ApiRejectAuth(target, mode)
    \/ /\ Cardinality(DOMAIN tokens) < MaxTokens
       /\ ExchangeRefreshToken("client-1", NeverIssued)
    \/ \E h \in RejectHeaderInputs :
          /\ nextSid < MaxFlakySessions
          /\ McpRequest("POST", NoSid, TRUE, h)
    \/ \E m \in {"POST", "GET"}, sid \in 1..MaxFlakySessions,
          h \in RejectHeaderInputs :
          /\ sid \in DOMAIN sessions
          /\ McpRequest(m, sid, FALSE, h)
    \/ \E r \in 1..MaxInflight : ResumeConnect(r)
    \/ \E r \in 1..MaxInflight : ResumeHandleRequest(r)

SpecReject == Init /\ [][NextReject]_vars

(***************************************************************************)
(* Claims about the reject toggles and established sessions.               *)
(***************************************************************************)
\* the reject toggle of the mode in force ("none" in none mode)
ActiveToggle(st) ==
    IF st.authMode = "bearer" THEN st.rejectBearer
    ELSE IF st.authMode = "oauth" THEN st.rejectOAuth
    ELSE "none"

\* the header carries the credential the mode in force asks for
ValidCredentials(h) ==
    IF state.authMode = "bearer" THEN h = BearerHeader(state.bearerToken)
    ELSE IF state.authMode = "oauth"
    THEN \E t \in DOMAIN tokens :
            /\ h = BearerHeader(t)
            /\ now <= tokens[t].expiresAt
    ELSE TRUE

\* C32: while the reject toggle of the mode in force is set, every request
\* on an established session is answered with the configured status and the
\* session stays in the registry; setting or clearing a toggle leaves the
\* registry as it is; once the toggle is none again a request with valid
\* credentials for the same id is routed to the same session.
C32_RejectKeepsSessions ==
    [][/\ (/\ resp'.op \in {"mcp", "POST", "GET"}
           /\ resp'.sid \in DOMAIN sessions) =>
              IF ActiveToggle(state) # "none"
              THEN /\ resp'.status = ActiveToggle(state)
                   /\ sessions' = sessions
              ELSE ValidCredentials(resp'.arg) =>
                      /\ resp'.status = "200"
                      /\ sessions' = sessions
       /\ resp'.op = "reject-auth" => sessions' = sessions]_vars

(***************************************************************************)
(* Specification of the activity-log middleware: requests to the protocol  *)
(* endpoint, to pages and to the control plane arrive while slow mode is   *)
(* switched on and off, and suspended requests resume in any order.        *)
(***************************************************************************)
MaxHttp == 2
HttpPathInputs == {PATH_mcp, PATH_nowhere, PATH_apiState, PATH_ui, PATH_favicon}
HttpHeaderInputs == {EmptyStr, BearerHeader(STR_testToken)}

NextHttp ==
    \/ \E path \in HttpPathInputs, bodyParses \in BOOLEAN,
          h \in HttpHeaderInputs :
          /\ Len(requests) < MaxHttp
          /\ HttpArrive(path, bodyParses, h)
    \/ \E n \in 1..MaxHttp : HttpDelayEnds(n)
    \/ \E enabled \in BOOLEAN : ApiSlowMode(JBool(enabled), JUndef, JUndef)
    \/ \E mode \in {"none", "bearer"} : ApiAuthMode(mode)

SpecHttp == Init /\ [][NextHttp]_vars

(***************************************************************************)
(* Claims about the activity-log middleware.                               *)
(***************************************************************************)
\* the entries appended for request number n
EntriesOf(n) == {i \in 1..Len(appended) : appended[i].arrival = n}

\* the control plane: /api and what lies below it, and /ui
ControlPlane(path) == mountedAt(PATH_api, path) \/ path = PATH_ui

\* C33: every request outside the control plane has exactly one entry once
\* its response has finished, carrying the status it was answered with, and
\* none before; a control-plane request has none.
C33_OneEntryPerRequest ==
    \A n \in 1..Len(requests) :
        IF ControlPlane(requests[n].path) \/ requests[n].pc # "done"
        THEN EntriesOf(n) = {}
        ELSE /\ Cardinality(EntriesOf(n)) = 1
             /\ \A i \in EntriesOf(n) : appended[i].status = requests[n].status

(***************************************************************************)
(* Specification of the whole control plane: every mutating route of the   *)
(* API router with accepted inputs, a session that opens and sends         *)
(* requests, and log entries being written.                                *)
(***************************************************************************)
ApiModeInputs == {"none", "bearer"}
ApiSecretInputs == {STR_testToken, STR_a}
ApiRejectInputs == {"none", "401"}

NextApi ==
    \/ \E mode \in ApiModeInputs : ApiAuthMode(mode)
    \/ \E token \in ApiSecretInputs : ApiBearerToken(JStr(token))
    \/ \E e \in BOOLEAN : ApiToolToggle("echo", e)
    \/ \E v \in {"v1", "v2"} : ApiToolVersion("echo", v)
    \/ \E mode \in ApiRejectInputs : ApiRejectAuth("bearer", mode)
    \/ \E e \in BOOLEAN : ApiSlowMode(JBool(e), JUndef, JUndef)
    \/ \E e \in BOOLEAN : ApiFlakyTools(JBool(e), JUndef)
    \/ ApiClearLog
    \/ /\ logSeq < MaxHttp
       /\ RequestFinished("mcp", "200")
    \/ \E token \in ApiSecretInputs :
          /\ DOMAIN inflight = {}
          /\ nextSid < MaxFlakySessions
          /\ McpRequest("POST", NoSid, TRUE, BearerHeader(token))
    \/ \E sid \in 1..MaxFlakySessions, token \in ApiSecretInputs :
          /\ sid \in DOMAIN sessions
          /\ McpRequest("POST", sid, FALSE, BearerHeader(token))
    \/ \E r \in 1..MaxInflight : ResumeConnect(r)
    \/ \E r \in 1..MaxInflight : ResumeHandleRequest(r)

SpecApi == Init /\ [][NextApi]_vars

(***************************************************************************)
(* Claims about the control plane as a whole.                              *)
(***************************************************************************)
\* the step is a call of one of the setters of the store
SetterCall ==
    \/ setAuthMode(state'.authMode)
    \/ setBearerToken(state'.bearerToken)
    \/ \E n \in DOMAIN state'.enabledTools, e \in ToggleBodyInputs :
          setToolEnabled(n, e)
    \/ \E n \in DOMAIN state'.toolVersions :
          setToolVersion(n, state'.toolVersions[n])

\* C34: every change of a configuration field is made by a setter of the
\* store (setAuthMode, setBearerToken, setToolEnabled, setToolVersion, each
\* with its notification), and every change of the log by addLogEntry: no
\* control-plane operation writes a field or the log directly.
C34_OnlySettersWrite ==
    [][/\ state' # state => SetterCall
       /\ log' # log =>
             /\ log' # <<>>
             /\ log' = addLogEntry(log, log'[Len(log')])]_vars

(***************************************************************************)
(* Specification of requests suspended in the slow-mode delay while the    *)
(* control plane changes the mode, the secret and the reject toggle.       *)
(***************************************************************************)
MaxDelayed == 1
DelayHeaderInputs == {BearerHeader(STR_testToken), BearerHeader(STR_a)}

NextDelay ==
    \/ \E h \in DelayHeaderInputs :
          /\ Len(requests) < MaxDelayed
          /\ HttpArrive(PATH_mcp, TRUE, h)
    \/ \E n \in 1..MaxDelayed : HttpDelayEnds(n)
    \/ \E enabled \in BOOLEAN : ApiSlowMode(JBool(enabled), JUndef, JUndef)
    \/ \E mode \in AuthModes : ApiAuthMode(mode)
    \/ \E token \in ApiSecretInputs : ApiBearerToken(JStr(token))
    \/ \E mode \in RejectModes : ApiRejectAuth("bearer", mode)

SpecDelay == Init /\ [][NextDelay]_vars

(***************************************************************************)
(* Claims about the slow-mode delay and the gateway.                       *)
(***************************************************************************)
\* what the configuration of the current state asks of a request: the
\* status of the reject toggle, "pass" for valid credentials, else 401
GatewayVerdict(h) ==
    IF ActiveToggle(state) # "none" THEN ActiveToggle(state)
    ELSE IF ValidCredentials(h) THEN "pass"
    ELSE "401"

\* C35: a request that waited in slowModeDelay is judged by the gateway
\* under the configuration in force when the delay ends, whatever the
\* configuration was when it arrived: it is rejected with the status that
\* configuration asks for, or handed on to the protocol endpoint (which
\* answers a GET without a session id with 400), and it is logged so.
C35_JudgedWhenDelayEnds ==
    [][\A n \in 1..Len(requests) :
          HttpDelayEnds(n) =>
             /\ resp'.status = IF GatewayVerdict(requests[n].authHeader) = "pass"
                               THEN "400"
                               ELSE GatewayVerdict(requests[n].authHeader)
             /\ appended'[Len(appended')].arrival = n
             /\ appended'[Len(appended')].status = resp'.status]_vars

\* a request that carried the secret of the time it arrived, waited, and
\* was rejected with 401 under the configuration of the time it resumed
C35_Witness ==
    /\ resp.op = "http"
    /\ resp.sid \in 1..Len(requests)
    /\ requests[resp.sid].pc = "done"
    /\ requests[resp.sid].atArrival = "400"
    /\ requests[resp.sid].status = "401"
    /\ state.rejectBearer = "none"

\* a request that was not admissible when it arrived and is let through
\* when it resumes
C35_WitnessAdmittedLater ==
    /\ resp.op = "http"
    /\ resp.sid \in 1..Len(requests)
    /\ requests[resp.sid].atArrival = "401"
    /\ requests[resp.sid].status = "400"
    /\ state.authMode = "bearer"

(***************************************************************************)
(* Specification of mode switches during the delegated flow: consent       *)
(* pages are opened, approved and exchanged, tokens are presented, time    *)
(* passes, and the mode goes from oauth to none and back.                  *)
(***************************************************************************)
MaxSwitchAuth == 3

NextSwitch ==
    \/ \E mode \in {"oauth", "none"} : ApiAuthMode(mode)
    \/ /\ DOMAIN pendingAuthorizations = {}
       /\ requireOAuthActive => Cardinality(authorized) < MaxSwitchAuth
       /\ Authorize("client-1", NoParam)
    \/ \E id \in DOMAIN pendingAuthorizations :
          /\ DOMAIN codes = {}
          /\ AuthorizeDecision(id, "approve")
    \/ \E code \in DOMAIN codes :
          /\ Cardinality(DOMAIN tokens) < MaxTokens
          /\ ExchangeAuthorizationCode("client-1", code)
    \/ Gateway(BearerHeader(TokenStr(1)))
    \/ Tick(InitialTtlSecs * MsPerSec)

SpecSwitch == Init /\ [][NextSwitch]_vars

(***************************************************************************)
(* Claims about mode switches and the delegated flow.                      *)
(***************************************************************************)
\* C36: a change of the auth mode leaves the token store, the code store
\* and the pending authorizations as they are, and in oauth mode (reject
\* toggle off) whatever they hold is honoured, whether or not the mode was
\* something else in between: a stored token that has not expired (its
\* expiry taken in whole seconds, as the middleware receives it) passes the
\* gateway, a stored code is exchanged by its client, a pending
\* authorization is approved.
C36_ModeSwitchKeepsFlowState ==
    [][/\ resp'.op = "auth-mode" =>
             UNCHANGED <<tokens, codes, pendingAuthorizations, timers>>
       /\ (/\ resp'.op = "gateway"
           /\ state.authMode = "oauth"
           /\ state.rejectOAuth = "none"
           /\ \E t \in DOMAIN tokens :
                 /\ resp'.arg = BearerHeader(t)
                 /\ now <= (tokens[t].expiresAt \div MsPerSec) * MsPerSec)
              => resp'.status = "next"
       /\ (/\ resp'.op = "exchange"
           /\ state.authMode = "oauth"
           /\ resp'.arg.code \in DOMAIN codes
           /\ codes[resp'.arg.code].client = resp'.arg.client) =>
              /\ resp'.status = "200"
              /\ resp'.arg.token \in DOMAIN tokens'
       /\ (/\ resp'.op = "decision"
           /\ state.authMode = "oauth"
           /\ resp'.arg.id \in DOMAIN pendingAuthorizations
           /\ resp'.arg.action = "approve") =>
              /\ resp'.status = "302"
              /\ resp'.arg.code \in DOMAIN codes']_vars

\* the mode has just come back to oauth from none, and the stores hold an
\* unexpired token, an unexchanged code and an undecided authorization,
\* all of them made before the mode left oauth
C36_Witness ==
    /\ resp.op = "auth-mode"
    /\ resp.prevMode = "none"
    /\ state.authMode = "oauth"
    /\ \E t \in DOMAIN tokens :
          /\ now <= tokens[t].expiresAt
          /\ oauthMiddleware(BearerHeader(t)) = "next"
    /\ DOMAIN codes # {}
    /\ DOMAIN pendingAuthorizations # {}

(***************************************************************************)
(* Specification of decisions with an action the handler does not know:    *)
(* they are submitted for authorizations still pending, and the four known *)
(* actions only for ids such a submission has already met.                 *)
(***************************************************************************)
UnknownActionInputs == {"maybe", "APPROVE", ""}

NextUnknownAction ==
    \/ \E mode \in {"oauth", "none"} : ApiAuthMode(mode)
    \/ \E st \in FlowStateInputs :
          /\ DOMAIN pendingAuthorizations = {}
          /\ requireOAuthActive => Cardinality(authorized) < MaxExpiring
          /\ Authorize("client-1", st)
    \/ \E id \in authorized, a \in UnknownActionInputs :
          AuthorizeDecision(id, a)
    \/ \E id \in decided, a \in HonouredActions : AuthorizeDecision(id, a)

SpecUnknownAction == Init /\ [][NextUnknownAction]_vars

(***************************************************************************)
(* Claims about unknown decision actions.                                  *)
(***************************************************************************)
\* C37: in oauth mode a decision whose action is none of approve, decline,
\* wrong-code, wrong-state, submitted for a pending authorization, is
\* answered 400 "Unknown action", stores no code and removes the pending
\* authorization; a later decision for that id with a known action is
\* answered 400 "expired or already used" and stores no code either.
C37_UnknownActionConsumes ==
    [][(resp'.op = "decision" /\ requireOAuthActive) =>
          /\ (/\ resp'.arg.action \notin HonouredActions
              /\ resp'.arg.id \in DOMAIN pendingAuthorizations) =>
                 /\ resp'.status = "400"
                 /\ resp'.arg.body = "Unknown action"
                 /\ resp'.arg.code = NoParam
                 /\ codes' = codes
                 /\ resp'.arg.id \notin DOMAIN pendingAuthorizations'
          /\ (/\ resp'.arg.action \in HonouredActions
              /\ resp'.arg.id \in decided) =>
                 /\ resp'.status = "400"
                 /\ resp'.arg.body = "expired or already used"
                 /\ codes' = codes]_vars

\* an approve decision refused for an id that only a decision with an
\* unknown action had met before
C37_Witness ==
    /\ resp.op = "decision"
    /\ resp.arg.action = "approve"
    /\ resp.arg.id \in decided
    /\ resp.status = "400"
    /\ resp.arg.body = "expired or already used"
    /\ DOMAIN codes = {}
    /\ state.authMode = "oauth"

(***************************************************************************)
(* Specification of tool invocations with their handlers: flaky and slow   *)
(* mode are switched, a session opens, contact tools are called.           *)
(***************************************************************************)
MaxCalls == 2
HandlerInputs == {"create-contact", "update-contact", "delete-contact",
                  "list-contacts"}
HandlerRollInputs == {0, 99}

NextHandlers ==
    \/ \E e \in BOOLEAN, p \in {JInt(50), JInt(100)} :
          ApiFlakyTools(JBool(e), p)
    \/ \E e \in BOOLEAN : ApiSlowMode(JBool(e), JUndef, JUndef)
    \/ /\ DOMAIN inflight = {}
       /\ nextSid < MaxFlakySessions
       /\ McpRequest("POST", NoSid, TRUE, BearerHeader(STR_testToken))
    \/ \E r \in 1..MaxInflight : ResumeConnect(r)
    \/ \E r \in 1..MaxInflight : ResumeHandleRequest(r)
    \/ \E sid \in 1..MaxFlakySessions, n \in HandlerInputs,
          roll \in HandlerRollInputs :
          /\ logSeq + 2 * Len(handlers) < 2 * MaxCalls
          /\ CallToolHandler(sid, n, roll, 1, "Dan", BearerHeader(STR_testToken))
    \/ \E h \in 1..MaxCalls : HandlerResumes(h)

SpecHandlers == Init /\ [][NextHandlers]_vars

(***************************************************************************)
(* Claims about the flaky roll and the handler.                            *)
(***************************************************************************)
\* C38: when the roll of an invocation fails (the registration rolls, flaky
\* mode is on and the roll lies below the percentage), the handler does not
\* run: the reply is a result with isError, no handler waits in a slow-mode
\* delay even with slow mode on, and the contacts table, the
\* configuration, the sessions and the stores of the delegated flow are as
\* before; the activity log records the reply as it does every reply.
C38_FlakyFailureSkipsHandler ==
    [][(/\ resp'.op = "tools/call"
        /\ resp'.sid \in DOMAIN sessions
        /\ resp'.arg.name \in DOMAIN sessions[resp'.sid].registeredTools
        /\ sessions[resp'.sid].registeredTools[resp'.arg.name].flaky
        /\ rollFailure(state, resp'.arg.roll)) =>
          /\ resp'.status = "flaky-failure"
          /\ resp'.arg.isError
          /\ resp'.arg.rpc = "result"
          /\ UNCHANGED <<contacts, handlers, state, requests, sessionVars,
                         oauthVars, clockVars>>
          /\ Len(appended') = Len(appended) + 2]_vars

\* a create-contact call that failed by the roll while slow mode was on:
\* the table still has its seed rows and nothing waits
C38_Witness ==
    /\ resp.op = "tools/call"
    /\ resp.status = "flaky-failure"
    /\ resp.arg.name = "create-contact"
    /\ state.slowMode
    /\ state.flakyPct = 50
    /\ contacts = SeedContacts
    /\ handlers = <<>>

(***************************************************************************)
(* Specification of the API router alone: every mutating route, with       *)
(* accepted and refused bodies, and the settings request of the page.      *)
(***************************************************************************)
RouterTtlInputs == {0, 60}

NextRouter ==
    \/ \E mode \in ModeInputs : ApiAuthMode(mode)
    \/ \E token \in ControlSecretInputs : ApiBearerToken(token)
    \/ \E t \in {"echo", "nope"}, e \in BOOLEAN : ApiToolToggle(t, e)
    \/ \E v \in ControlVersionInputs : ApiToolVersion("echo", v)
    \/ \E target \in {"bearer", "oauth"}, mode \in ControlRejectInputs :
          ApiRejectAuth(target, mode)
    \/ \E e \in BOOLEAN, ms \in {JInt(0), JUndef} : ApiSlowMode(JBool(e), ms, ms)
    \/ \E e \in BOOLEAN, p \in {JInt(100), JUndef} : ApiFlakyTools(JBool(e), p)
    \/ ApiClearLog
    \/ ApiResetDb
    \/ \E ttlSecs \in RouterTtlInputs, failRefresh \in BOOLEAN :
          ApiOAuthSettings(ttlSecs, failRefresh)

SpecRouter == Init /\ [][NextRouter]_vars

SecretChain == <<STR_testToken, STR_a_b, STR_a>>

FrameSecretInputs == {SecretChain[i] : i \in 1..Len(SecretChain)}

NextFrame ==
    \/ ApiAuthMode("bearer")
    \/ \E i \in 1..(Len(SecretChain) - 1) :
          /\ state.bearerToken = SecretChain[i]
          /\ ApiBearerToken(JStr(SecretChain[i + 1]))
    \/ \E e \in BOOLEAN : ApiToolToggle("echo", e)
    \/ ApiToolVersion("echo", "v2")
    \/ ApiRejectAuth("oauth", "401")
    \/ ApiSlowMode(JBool(TRUE), JUndef, JUndef)
    \/ ApiFlakyTools(JBool(TRUE), JUndef)
    \/ ApiClearLog
    \/ /\ DOMAIN inflight = {}
       /\ nextSid < MaxFlakySessions
       /\ McpRequest("POST", NoSid, TRUE, BearerHeader(state.bearerToken))
    \/ \E sid \in 1..MaxFlakySessions, token \in FrameSecretInputs :
          /\ sid \in DOMAIN sessions
          /\ McpRequest("POST", sid, FALSE, BearerHeader(token))
    \/ \E r \in 1..MaxInflight : ResumeConnect(r)
    \/ \E r \in 1..MaxInflight : ResumeHandleRequest(r)

SpecFrame == Init /\ [][NextFrame]_vars

(***************************************************************************)
(* Claims about what the control plane leaves alone.                       *)
(***************************************************************************)
\* the registered tools of every session, by session id
RegisteredSets(ss) == [sid \in DOMAIN ss |-> ss[sid].registeredTools]

\* C40: the routes for the secret, the reject toggles, slow mode, flaky
\* mode and the log leave the session registry, the suspended requests and
\* every registered set as they are; of the control-plane routes only
\* auth-mode removes sessions and only tool-toggle and tool-version change
\* a registered set; and a request in bearer mode (reject toggle off) that
\* carries a secret replaced earlier is answered 401.
C40_FrameAndOldSecret ==
    [][/\ resp'.op \in {"bearer-token", "reject-auth", "slow-mode",
                         "flaky-tools", "clear-log"} =>
              UNCHANGED <<sessions, inflight>>
       /\ resp'.op \in {"tool-toggle", "tool-version"} =>
              DOMAIN sessions' = DOMAIN sessions
       /\ resp'.op = "auth-mode" =>
              RegisteredSets(sessions') =
                 [sid \in DOMAIN sessions' |-> sessions[sid].registeredTools]
       /\ ( /\ resp'.op \in {"mcp", "POST", "GET"}
            /\ state.authMode = "bearer"
            /\ state.rejectBearer = "none"
            /\ \E i \in 1..Len(SecretChain) :
                  /\ state.bearerToken = SecretChain[i]
                  /\ \E j \in 1..(i - 1) :
                        resp'.arg = BearerHeader(SecretChain[j]) )
          => resp'.status = "401"
      ]_vars

====
